---- MODULE Spec2Model ----
(***************************************************************************)
(* Verification model of chatgpt-autopsy-go: the export parser's tree      *)
(* traversal (internal/services/parser.go), the archive extractor          *)
(* (internal/services/extraction.go), the background task that drives     *)
(* one Run through its stages (internal/api/handlers.go), the upload       *)
(* service (internal/services/upload.go), the segmentation into threads    *)
(* (internal/services/thread.go) and the retry helper of the database      *)
(* package (internal/database/db.go).                                      *)
(*                                                                         *)
(* The specifications of the module:                                       *)
(*   ParserSpec   one conversation's node mapping is parsed                *)
(*   ReparseSpec  the same mapping is parsed again, results compared       *)
(*   Spec         one Run: extraction, parsing, thread creation            *)
(*   PathSpec     the extraction of archives with one entry of any name    *)
(*   FairSpec     Spec with the background goroutine running to its end    *)
(*   UploadSpec   upload requests and deletions (internal/services/upload.go) *)
(*   ImportSpec   ParseUpload over candidate files, with the stored rows    *)
(*   FairImportSpec  ImportSpec with the goroutine running to its end       *)
(*   BatchSpec    the batch writes of one conversation's messages          *)
(*   SegmentSpec  createThreadsForConversation on small message stores     *)
(*   ResegmentSpec  SegmentSpec with a store of more days than one batch   *)
(*   RetrySpec    one call of RetryWithBackoff                             *)
(*   ArtifactSpec  one Run writes the date files of two conversations      *)
(*   ConcurrentArtifactSpec  two Runs write the date files at once         *)
(*   ConcurrentUploadSpec  upload requests handled at the same time        *)
(***************************************************************************)
EXTENDS Integers, Sequences, FiniteSets, TLC

----------------------------------------------------------------------------
(* Bounds of the model *)

\* node identifiers of a mapping are 1..MaxNodes
MaxNodes == 3
\* a node lists at most MaxChildren children
MaxChildren == 2
\* the same mapping is parsed at most MaxParses times
MaxParses == 2

\* an archive holds at most MaxEntries entries
MaxEntries == 3
\* an entry name is at most MaxNameLen path tokens long
MaxNameLen == 2
\* an entry's declared uncompressed size is at most MaxEntrySize
MaxEntrySize == 1
\* cfg.Upload.MaxExtractionSize, scaled down
MaxExtractionSize == 1
\* cfg.Upload.MaxExtractedFiles, scaled down
MaxExtractedFiles == 2
\* a candidate file yields at most MaxConvsPerFile conversations
MaxConvsPerFile == 1

\* upload requests handled in UploadSpec
MaxUploads == 3
\* distinct archive contents (content hashes) in UploadSpec
MaxHashes == 2
\* candidate files of one Run
MaxFiles == 2
\* messages emitted for one conversation in BatchSpec
MaxMessages == 2500
\* batchSize of processConversation
BatchSize == 1000
\* stored messages of the small stores in SegmentSpec
MaxSegMessages == 3
\* days of one conversation in the large stores of SegmentSpec
MaxSegDates == 1001
\* batchSize of createThreadsForConversation
ThreadBatchSize == 1000

NodeIds == 1..MaxNodes
\* the empty string "", the zero value of rootID in processMessages
NoId == 0

----------------------------------------------------------------------------
(* State *)

VARIABLES
    \* ---- ParserSpec: ChatGPTConversation.Mapping and the parser's results
    mapping,      \* map[string]MessageNode: node id -> [Message, Parent, Children]
    pstate,       \* "start" | "done" | "overflow" (the recursion never returns)
    parses,       \* number of parses of the mapping so far
    convId,       \* Conversation.ConversationID chosen by findRootMessageID
    rootID,       \* rootID chosen by processMessages
    messages,     \* the []models.Message returned by processMessages
    prev,         \* result of the previous parse of the same mapping
    \* ---- Spec, PathSpec: one Run (an Upload with its Import record)
    zipFile,        \* zipReader.File: the archive's entries, in archive order
    pc,             \* position of the Run's background task
    importRecord,   \* the stored models.Import row: Status, ProgressPercent, ErrorMessage
    idx,            \* index of the entry the extraction loop is at
    totalSize,      \* ExtractUpload's totalSize
    fileCount,      \* ExtractUpload's fileCount
    extractedFiles, \* ExtractUpload's extractedFiles slice
    extractions,    \* the stored models.Extraction rows of the upload
    disk,           \* the paths a file has been created at
    log,            \* per loop iteration, what ExtractUpload did with the entry
    parseIdx,       \* index of the candidate file ParseUpload is at
    conversations,  \* number of stored models.Conversation rows of the upload
    threadIdx,      \* index of the conversation CreateThreadsForUpload is at
    parseLog,       \* per candidate file, what ParseUpload did with it
    threadLog,      \* per conversation, what CreateThreadsForUpload did with it
    \* ---- UploadSpec: the uploads of the service
    uploads,        \* the stored models.Upload rows: FileHash, Deleted (soft delete)
    imports,        \* the upload ids that have a models.Import row
    storedFiles,    \* the archive files in the uploads directory, by request
    tempFiles,      \* the temporary files in the uploads directory, by request
    runs,           \* the upload ids a background task was started for
    requests,       \* number of upload requests handled so far
    response,       \* hash, answer and error of the latest upload request
    \* ---- ImportSpec: ParseUpload over the candidate files of one Run
    files,          \* the candidate files: Valid (readable JSON), Export (its conversations)
    fileIdx,        \* index of the file ParseUpload is at
    convIdx,        \* index of the conversation parseConversationFile is at
    convStore,      \* the stored models.Conversation rows of the Run
    msgStore,       \* the stored models.Message rows of the Run
    importLog,      \* per processed conversation: its file, mapping, id and outcome
    fileLog,        \* per candidate file, what ParseUpload did with it
    \* ---- BatchSpec: the batch writes of one conversation's messages
    batchMessages,  \* the messages slice of processConversation
    batchAt,        \* the loop index i of the batch loop
    batches,        \* the committed batch writes, in order
    batchState,     \* "writing" | "done" | "failed"
    messageCount,   \* the stored MessageCount of the conversation's row
    lastWrite,      \* the latest batch write: calls of CreateInBatches, its error
    \* ---- SegmentSpec: createThreadsForConversation on stored messages
    segMessages,    \* the stored models.Message rows; the row id is the position
    threads,        \* the stored models.Thread rows, in order of creation
    segConv,        \* the conversation the running segmentation is for
    segPending,     \* the threads slice of the running segmentation
    segAt,          \* the loop index i of its batch loop
    segState,       \* "idle" | "writing"
    segLog,         \* per conversation, what its segmentation runs did so far
    \* ---- RetrySpec: one call of RetryWithBackoff
    maxRetries,     \* the parameter maxRetries
    initialDelay,   \* the parameter initialDelay
    retryI,         \* the loop index i
    delay,          \* the local delay, a time.Duration (int64)
    retryErr,       \* the local err; "" is nil
    retryLog,       \* the calls of fn and the sleeps so far, in order
    retryState,     \* "idle" | "looping" | "returned"
    \* ---- ArtifactSpec, ConcurrentArtifactSpec: extractUserMessagesByDate
    artConvs,       \* per conversation, the messages slice it is called with
    artQueue,       \* per Run, the conversations it has still to process
    extracting,     \* per Run, the locals of its call of extractUserMessagesByDate
    artifacts,      \* per date, the content of the file <date>.md
    artLog,         \* the conversations processed, and whether a file operation failed
    \* ---- ConcurrentUploadSpec: upload requests handled at the same time
    uploading       \* per request, the locals of its call of UploadFile

parserVars == <<mapping, pstate, parses, convId, rootID, messages, prev>>

runVars == <<zipFile, pc, importRecord, idx, totalSize, fileCount,
             extractedFiles, extractions, disk, log, parseIdx, conversations,
             threadIdx, parseLog, threadLog>>

\* the Run's variables that ParseUpload neither reads nor writes
runRest == <<zipFile, idx, totalSize, fileCount, extractedFiles, extractions,
             disk, log, parseIdx, conversations, threadIdx, parseLog, threadLog>>

uploadVars == <<uploads, imports, storedFiles, tempFiles, runs, requests,
                response>>

storeVars == <<files, fileIdx, convIdx, convStore, msgStore, importLog, fileLog>>

batchVars == <<batchMessages, batchAt, batches, batchState, messageCount,
               lastWrite>>

segVars == <<segMessages, threads, segConv, segPending, segAt, segState, segLog>>

retryVars == <<maxRetries, initialDelay, retryI, delay, retryErr, retryLog,
               retryState>>

artifactVars == <<artConvs, artQueue, extracting, artifacts, artLog>>

raceVars == <<uploading>>

\* the variables of the specifications further down
laterVars == <<segVars, retryVars, artifactVars, raceVars>>

\* what the parser actions leave alone, and what the Run's actions leave alone
nonParserVars == <<runVars, uploadVars, storeVars, batchVars, laterVars>>
nonRunVars == <<parserVars, uploadVars, storeVars, batchVars, laterVars>>

\* what the segmentation actions leave alone
nonSegVars == <<parserVars, runVars, uploadVars, storeVars, batchVars,
                retryVars, artifactVars, raceVars>>

\* what the actions of RetryWithBackoff leave alone
nonRetryVars == <<parserVars, runVars, uploadVars, storeVars, batchVars,
                  segVars, artifactVars, raceVars>>

\* what the actions of extractUserMessagesByDate leave alone
nonArtifactVars == <<parserVars, runVars, uploadVars, storeVars, batchVars,
                     segVars, retryVars, raceVars>>

\* what the concurrent upload requests leave alone
nonRaceVars == <<parserVars, runVars, storeVars, batchVars, segVars,
                 retryVars, artifactVars>>

vars == <<mapping, pstate, parses, convId, rootID, messages, prev,
          zipFile, pc, importRecord, idx, totalSize, fileCount,
          extractedFiles, extractions, disk, log, parseIdx, conversations,
          threadIdx, parseLog, threadLog,
          uploads, imports, storedFiles, tempFiles, runs, requests, response,
          files, fileIdx, convIdx, convStore, msgStore, importLog, fileLog,
          batchMessages, batchAt, batches, batchState, messageCount, lastWrite,
          segMessages, threads, segConv, segPending, segAt, segState, segLog,
          maxRetries, initialDelay, retryI, delay, retryErr, retryLog,
          retryState, artConvs, artQueue, extracting, artifacts, artLog,
          uploading>>

----------------------------------------------------------------------------
(* Sequence helpers *)

SeqsUpTo(S, n) == UNION {[1..k -> S] : k \in 0..n}

RECURSIVE SumSeq(_)
SumSeq(s) == IF s = <<>> THEN 0 ELSE Head(s) + SumSeq(Tail(s))

----------------------------------------------------------------------------
(* parser.go: MessageNode and the mapping *)

\* MessageNode.Message is nil, or a payload whose Status is
\* "finished_successfully" or something else; MessageNode.Parent is nil or set
\* (the code only tests it for nil).
MessageNode == [Message : {"nil", "finished", "other"},
                Parent : {"nil", "set"},
                Children : SeqsUpTo(NodeIds, MaxChildren)]

Mappings == UNION {[D -> MessageNode] : D \in SUBSET NodeIds}

\* the nodes with Parent == nil
Parentless(m) == {id \in DOMAIN m : m[id].Parent = "nil"}

\* findRootMessageID: the first parentless key in map iteration order, else
\* the first key, else "". Go's map iteration order is unspecified, so the
\* result is any member of the set returned here.
findRootMessageID(m) ==
    IF Parentless(m) # {} THEN Parentless(m)
    ELSE IF DOMAIN m # {} THEN DOMAIN m
    ELSE {NoId}

\* processMessages lines 247-254: the first parentless key in map iteration
\* order, "" when there is none.
findRootID(m) ==
    IF Parentless(m) # {} THEN Parentless(m) ELSE {NoId}

\* traverseMessages: acc is [messages, index, overflow]. A call on an existing
\* node at a depth greater than the number of nodes has a node twice on the
\* call stack; the recursion is a function of the node alone, so it never
\* returns and the goroutine stack overflows (a fatal error).
RECURSIVE traverseMessages(_, _, _, _)
traverseChildren(m, children, acc, depth) ==
    LET RECURSIVE Loop(_, _)
        Loop(i, a) ==
            IF i > Len(children) THEN a
            ELSE Loop(i + 1, traverseMessages(m, children[i], a, depth + 1))
    IN Loop(1, acc)

traverseMessages(m, nodeID, acc, depth) ==
    IF acc.overflow THEN acc
    ELSE IF nodeID \notin DOMAIN m \/ m[nodeID].Message = "nil" THEN acc
    ELSE IF depth > Cardinality(DOMAIN m) THEN [acc EXCEPT !.overflow = TRUE]
    ELSE IF m[nodeID].Message # "finished"
         THEN traverseChildren(m, m[nodeID].Children, acc, depth)
    ELSE traverseChildren(m, m[nodeID].Children,
             [acc EXCEPT !.messages = Append(@, [MessageID |-> nodeID,
                                                 MessageIndex |-> acc.index]),
                         !.index = @ + 1],
             depth)

\* sort.Slice(messages, MessageIndex <): insertion sort on MessageIndex
RECURSIVE SortByIndex(_)
SortByIndex(s) ==
    IF Len(s) <= 1 THEN s
    ELSE LET rest == SortByIndex(Tail(s))
             h == Head(s)
             lower == SelectSeq(rest, LAMBDA x : x.MessageIndex < h.MessageIndex)
             upper == SelectSeq(rest, LAMBDA x : ~(x.MessageIndex < h.MessageIndex))
         IN lower \o <<h>> \o upper

\* processMessages with the root it picked
processMessages(m, root) ==
    IF root = NoId THEN [messages |-> <<>>, index |-> 0, overflow |-> FALSE]
    ELSE LET r == traverseMessages(m, root,
                      [messages |-> <<>>, index |-> 0, overflow |-> FALSE], 1)
         IN [r EXCEPT !.messages = SortByIndex(@)]

----------------------------------------------------------------------------
(* extraction.go: entry names and sanitizePath *)

\* A path is a sequence of tokens: the separator, a dot, and two file names.
PathTokens == {"/", ".", "a", "chat.json"}

\* filepath.Join(s.cfg.Directories.ExtractedDir, upload.UUID), an absolute path
BaseDir == <<"/", "extracted", "/", "uuid">>

\* the elements of a path between separators (empty elements included)
RECURSIVE SplitPath(_)
SplitPath(p) ==
    IF \A i \in 1..Len(p) : p[i] # "/" THEN <<p>>
    ELSE LET k == CHOOSE i \in 1..Len(p) :
                      p[i] = "/" /\ \A j \in 1..(i - 1) : p[j] # "/"
         IN <<SubSeq(p, 1, k - 1)>> \o SplitPath(SubSeq(p, k + 1, Len(p)))

RECURSIVE JoinElems(_)
JoinElems(es) ==
    IF es = <<>> THEN <<>>
    ELSE IF Len(es) = 1 THEN es[1]
    ELSE es[1] \o <<"/">> \o JoinElems(Tail(es))

\* filepath.Clean: drops empty and "." elements, resolves an inner ".."
\* against the element before it, keeps a leading ".." of a relative path
\* and drops one at the root
Clean(p) ==
    LET rooted == p # <<>> /\ p[1] = "/"
        RECURSIVE Fold(_, _, _)
        Fold(es, out, dotdot) ==
            IF es = <<>> THEN out
            ELSE LET e == Head(es) IN
                 IF e = <<>> \/ e = <<".">> THEN Fold(Tail(es), out, dotdot)
                 ELSE IF e = <<".", ".">>
                      THEN IF Len(out) > dotdot
                           THEN Fold(Tail(es), SubSeq(out, 1, Len(out) - 1), dotdot)
                           ELSE IF rooted THEN Fold(Tail(es), out, dotdot)
                           ELSE Fold(Tail(es), Append(out, e), Len(out) + 1)
                 ELSE Fold(Tail(es), Append(out, e), dotdot)
        kept == Fold(SplitPath(p), <<>>, 0)
    IN IF rooted THEN <<"/">> \o JoinElems(kept)
       ELSE IF kept = <<>> THEN <<".">>
       ELSE JoinElems(kept)

\* strings.TrimPrefix(s, "/")
TrimPrefix(s) == IF s # <<>> /\ s[1] = "/" THEN Tail(s) ELSE s

\* strings.Contains(s, "..")
ContainsDotDot(s) == \E i \in 1..(Len(s) - 1) : s[i] = "." /\ s[i + 1] = "."

\* filepath.IsAbs on a Unix build
IsAbs(s) == s # <<>> /\ s[1] = "/"

\* filepath.Join(a, b): the non-empty elements joined by the separator, cleaned
Join(a, b) == IF b = <<>> THEN Clean(a) ELSE Clean(a \o <<"/">> \o b)

\* filepath.Abs of a path that is already absolute
Abs(s) == Clean(s)

\* strings.HasPrefix
HasPrefix(s, pre) == Len(s) >= Len(pre) /\ SubSeq(s, 1, Len(pre)) = pre

\* sanitizePath lines 162-167: Clean, then the leading separator removed
\* (a cleaned path has at most one; no token is a backslash)
CleanedName(filePath) == TrimPrefix(TrimPrefix(Clean(filePath)))

\* sanitizePath: err is "" and path the destination, or err names the check
\* that rejected the name
sanitizePath(filePath, baseDir) ==
    LET cleaned == CleanedName(filePath)
        fullPath == Join(baseDir, cleaned)
    IN IF ContainsDotDot(cleaned) THEN [err |-> "path contains '..'", path |-> <<>>]
       ELSE IF IsAbs(cleaned) THEN [err |-> "absolute path not allowed", path |-> <<>>]
       ELSE IF ~HasPrefix(Abs(fullPath), Abs(baseDir))
            THEN [err |-> "path outside base directory", path |-> <<>>]
       ELSE [err |-> "", path |-> fullPath]

\* filepath.Ext: the suffix from the last dot of the last element
RECURSIVE Ext(_)
Ext(p) ==
    IF p = <<>> THEN <<>>
    ELSE LET last == p[Len(p)] IN
         IF last = "/" THEN <<>>
         ELSE IF last = "." THEN <<".">>
         ELSE IF last = "chat.json" THEN <<".json">>
         ELSE LET e == Ext(SubSeq(p, 1, Len(p) - 1)) IN
              IF e = <<>> THEN <<>> ELSE Append(e, last)

\* determineFileType: ".json" with "conversation", "chat" or "message" in the
\* name is a conversation file; no token spells a media extension
determineFileType(filePath) ==
    IF Ext(filePath) = <<".json">> /\ \E i \in 1..Len(filePath) : filePath[i] = "chat.json"
    THEN "conversation"
    ELSE "other"

\* zip.File: the entry's name and declared uncompressed size
AllNames == UNION {[1..k -> PathTokens] : k \in 1..MaxNameLen}
EntrySizes == 0..MaxEntrySize
\* the names of the Run specification's archives: a plain file, an export
\* file and "../a"
EntryNames == {<<"a">>, <<"chat.json">>, <<".", ".", "/", "a">>}
ZipEntries == [Name : EntryNames, UncompressedSize64 : EntrySizes]

\* the names of PathSpec: every short name, and the rooted name "/../a"
PathNames == AllNames \cup {<<"/", ".", ".", "/", "a">>}

\* sanitizePath(name, extractDir) of every name in names, as a table
RECURSIVE SanitizedTable(_)
SanitizedTable(names) ==
    IF names = {} THEN <<>>
    ELSE LET name == CHOOSE n \in names : TRUE
         IN (name :> sanitizePath(name, BaseDir)) @@ SanitizedTable(names \ {name})

\* sanitizePath of every entry name of the model, computed once
SanitizedNames == SanitizedTable(EntryNames \cup PathNames)

----------------------------------------------------------------------------
(* ParserSpec: processConversation's identifier and message list *)

NoParse == [convId |-> NoId, rootID |-> NoId, messages |-> <<>>]

\* the stored Import row as UploadFile creates it (upload.go lines 111-116)
NewImport == [Status |-> "pending", ProgressPercent |-> 0, ErrorMessage |-> ""]

\* no Run is under way
\* no upload request has been handled
NoUploads ==
    /\ uploads = <<>>
    /\ imports = {}
    /\ storedFiles = {}
    /\ tempFiles = {}
    /\ runs = {}
    /\ requests = 0
    /\ response = [hash |-> 0, code |-> "none", err |-> ""]

\* the record of the segmentation runs of a conversation: startedEmpty
\* whether the run in progress found no Thread of the conversation,
\* fromNothing whether a run that found none returned nil, partial whether a
\* run failed after it had written a batch, and resumed whether a later run
\* wrote Threads and returned nil
NoRuns ==
    [c \in {1, 2} |-> [startedEmpty |-> FALSE, fromNothing |-> FALSE,
                       partial |-> FALSE, resumed |-> FALSE]]

\* no segmentation is running and nothing is stored for it
NoSegment ==
    /\ segMessages = <<>>
    /\ threads = <<>>
    /\ segConv = 0
    /\ segPending = <<>>
    /\ segAt = 0
    /\ segState = "idle"
    /\ segLog = NoRuns

\* RetryWithBackoff is not called
NoRetry ==
    /\ maxRetries = 0
    /\ initialDelay = 0
    /\ retryI = 0
    /\ delay = 0
    /\ retryErr = ""
    /\ retryLog = <<>>
    /\ retryState = "idle"

\* no conversation is given to extractUserMessagesByDate
NoArtifacts ==
    /\ artConvs = <<>>
    /\ artQueue = <<>>
    /\ extracting = <<>>
    /\ artifacts = <<>>
    /\ artLog = [done |-> {}, failed |-> FALSE]

\* no upload request is being handled step by step
NoRace == uploading = <<>>

\* every specification further down but the segmentation is at rest
NoLaterButSegment == NoRetry /\ NoArtifacts /\ NoRace

\* the specifications further down are at rest
NoLater == NoSegment /\ NoLaterButSegment

\* no batch write was made yet
NoWrite == [calls |-> 0, err |-> ""]

\* ParseUpload has no files and no batch loop is running
NoImport ==
    /\ files = <<>>
    /\ fileIdx = 1
    /\ convIdx = 1
    /\ convStore = <<>>
    /\ msgStore = <<>>
    /\ importLog = <<>>
    /\ fileLog = <<>>
    /\ batchMessages = <<>>
    /\ batchAt = 0
    /\ batches = <<>>
    /\ batchState = "idle"
    /\ messageCount = 0
    /\ lastWrite = NoWrite

NoRun ==
    /\ zipFile = <<>>
    /\ pc = "idle"
    /\ importRecord = NewImport
    /\ idx = 1
    /\ totalSize = 0
    /\ fileCount = 0
    /\ extractedFiles = <<>>
    /\ extractions = <<>>
    /\ disk = {}
    /\ log = <<>>
    /\ parseIdx = 1
    /\ conversations = 0
    /\ threadIdx = 1
    /\ parseLog = <<>>
    /\ threadLog = <<>>

ParserInit ==
    /\ NoRun
    /\ NoUploads
    /\ NoLater
    /\ NoImport
    /\ mapping \in Mappings
    /\ pstate = "start"
    /\ parses = 0
    /\ convId = NoId
    /\ rootID = NoId
    /\ messages = <<>>
    /\ prev = NoParse

\* processConversation lines 189-218: the identifier from findRootMessageID,
\* the messages from processMessages
ParseConversation ==
    /\ pstate = "start"
    /\ \E cid \in findRootMessageID(mapping), root \in findRootID(mapping) :
         LET r == processMessages(mapping, root) IN
           /\ convId' = cid
           /\ rootID' = root
           /\ messages' = r.messages
           /\ pstate' = IF r.overflow THEN "overflow" ELSE "done"
    /\ parses' = parses + 1
    /\ UNCHANGED <<mapping, prev>>
    /\ UNCHANGED nonParserVars

\* the same export is parsed again (another Run of the same file)
ParseAgain ==
    /\ pstate = "done"
    /\ parses < MaxParses
    /\ prev' = [convId |-> convId, rootID |-> rootID, messages |-> messages]
    /\ pstate' = "start"
    /\ convId' = NoId
    /\ rootID' = NoId
    /\ messages' = <<>>
    /\ UNCHANGED <<mapping, parses>>
    /\ UNCHANGED nonParserVars

ParserNext == ParseConversation

ParserSpec == ParserInit /\ [][ParserNext]_vars

\* ReparseSpec: every node carries a finished payload, so that the two parses
\* differ only by the roots they pick
ReparseInit ==
    /\ ParserInit
    /\ \A id \in DOMAIN mapping : mapping[id].Message = "finished"

ReparseNext == ParseConversation \/ ParseAgain

ReparseSpec == ReparseInit /\ [][ReparseNext]_vars

----------------------------------------------------------------------------
(* One Run: the background task of handlers.go UploadFile lines 112-130 *)

\* Environment model: opening the archive, creating the extraction directory,
\* extracting a file and a batch write of records may fail; a Save of the
\* Import row is taken to succeed (most of them drop their error).

NoParserRun ==
    /\ mapping = <<>>
    /\ pstate = "idle"
    /\ parses = 0
    /\ convId = NoId
    /\ rootID = NoId
    /\ messages = <<>>
    /\ prev = NoParse

RunStart ==
    /\ pc = "extract_begin"
    /\ importRecord = NewImport
    /\ idx = 1
    /\ totalSize = 0
    /\ fileCount = 0
    /\ extractedFiles = <<>>
    /\ extractions = <<>>
    /\ disk = {}
    /\ log = <<>>
    /\ parseIdx = 1
    /\ conversations = 0
    /\ threadIdx = 1
    /\ parseLog = <<>>
    /\ threadLog = <<>>

Init ==
    /\ NoParserRun
    /\ NoUploads
    /\ NoLater
    /\ NoImport
    /\ RunStart
    /\ zipFile \in SeqsUpTo(ZipEntries, MaxEntries)

\* the import row after a fatal error was recorded
Failed(msg) == [importRecord EXCEPT !.Status = "failed", !.ErrorMessage = msg]

\* the extraction progress on a scale of 40 in place of 30
ExtractProgressOfForty(count, total) == 10 + ((count * 40) \div total)

\* the progress ExtractUpload stores after count of total entries (10-40%)
ExtractProgress(count, total) == 10 + ((count * 30) \div total)

\* ExtractUpload lines 35-72: the status update, zip.OpenReader, os.MkdirAll
ExtractBegin ==
    /\ pc = "extract_begin"
    /\ \E env \in {"ok", "open failed", "mkdir failed"} :
         CASE env = "open failed" ->
                /\ pc' = "stopped"
                /\ importRecord' = [Status |-> "failed", ProgressPercent |-> 10,
                                    ErrorMessage |-> "failed to open ZIP file"]
           [] env = "mkdir failed" ->
                /\ pc' = "stopped"
                /\ importRecord' = [importRecord EXCEPT !.Status = "extracting",
                                                        !.ProgressPercent = 10]
           [] env = "ok" ->
                /\ pc' = "extract_loop"
                /\ importRecord' = [importRecord EXCEPT !.Status = "extracting",
                                                        !.ProgressPercent = 10]
    /\ UNCHANGED <<zipFile, idx, totalSize, fileCount, extractedFiles,
                   extractions, disk, log, parseIdx, conversations, threadIdx,
                   parseLog, threadLog>>
    /\ UNCHANGED nonRunVars

\* the size check with >= in place of >
ExceedsExtractionSizeGE(total, size) == total + size >= MaxExtractionSize

\* ExtractUpload line 96: totalSize+file.UncompressedSize64 > MaxExtractionSize
ExceedsExtractionSize(total, size) == total + size > MaxExtractionSize

\* extractFile: creates the destination and copies the content; it may fail
\* before or after the destination file exists, and it cannot create a file
\* at the extraction directory itself
extractFile(destPath) ==
    IF destPath = BaseDir THEN {"failed"}
    ELSE {"ok", "failed", "failed after create"}

\* ExtractUpload lines 75-134: one iteration of the loop over zipReader.File
ExtractEntry ==
    /\ pc = "extract_loop"
    /\ idx <= Len(zipFile)
    /\ LET file == zipFile[idx]
           sp == SanitizedNames[file.Name]
       IN
       IF fileCount >= MaxExtractedFiles
       THEN /\ importRecord' = Failed("exceeded max extracted files")
            /\ log' = Append(log, "limit files")
            /\ pc' = "stopped"
            /\ UNCHANGED <<idx, totalSize, fileCount, extractedFiles, disk>>
       ELSE IF sp.err # ""
       THEN /\ log' = Append(log, "invalid path")
            /\ idx' = idx + 1
            /\ UNCHANGED <<importRecord, pc, totalSize, fileCount,
                           extractedFiles, disk>>
       ELSE IF ExceedsExtractionSize(totalSize, file.UncompressedSize64)
       THEN /\ importRecord' = Failed("exceeded max extraction size")
            /\ log' = Append(log, "limit size")
            /\ pc' = "stopped"
            /\ UNCHANGED <<idx, totalSize, fileCount, extractedFiles, disk>>
       ELSE \E io \in extractFile(sp.path) :
              IF io # "ok"
              THEN /\ log' = Append(log, "extract failed")
                   /\ disk' = IF io = "failed after create"
                              THEN disk \cup {sp.path} ELSE disk
                   /\ idx' = idx + 1
                   /\ UNCHANGED <<importRecord, pc, totalSize, fileCount,
                                  extractedFiles>>
              ELSE /\ disk' = disk \cup {sp.path}
                   /\ extractedFiles' = Append(extractedFiles,
                          [FilePath |-> sp.path,
                           FileType |-> determineFileType(file.Name),
                           FileSize |-> file.UncompressedSize64,
                           Entry |-> idx])  \* the entry it was made for
                   /\ totalSize' = totalSize + file.UncompressedSize64
                   /\ fileCount' = fileCount + 1
                   /\ importRecord' = [importRecord EXCEPT !.ProgressPercent =
                          ExtractProgress(fileCount + 1, Len(zipFile))]
                   /\ log' = Append(log, "extracted")
                   /\ idx' = idx + 1
                   /\ UNCHANGED pc
    /\ UNCHANGED <<zipFile, extractions, parseIdx, conversations, threadIdx,
                   parseLog, threadLog>>
    /\ UNCHANGED nonRunVars

\* ExtractFinish with the failed batch write not ending the Run
ExtractFinishIgnoringError ==
    /\ pc = "extract_loop"
    /\ idx > Len(zipFile)
    /\ \E env \in {"ok", "batch failed"} :
         CASE env = "batch failed" ->
                /\ extractedFiles # <<>>
                /\ pc' = "parse_begin"
                /\ UNCHANGED <<importRecord, extractions>>
           [] env = "ok" ->
                /\ pc' = "parse_begin"
                /\ extractions' = extractedFiles
                /\ importRecord' = [importRecord EXCEPT !.Status = "parsing",
                                                        !.ProgressPercent = 40]
    /\ UNCHANGED <<zipFile, idx, totalSize, fileCount, extractedFiles, disk,
                   log, parseIdx, conversations, threadIdx, parseLog, threadLog>>
    /\ UNCHANGED nonRunVars

\* ExtractUpload lines 136-157: the records are stored in one batch write,
\* then the status becomes parsing
ExtractFinish ==
    /\ pc = "extract_loop"
    /\ idx > Len(zipFile)
    /\ \E env \in {"ok", "batch failed"} :
         CASE env = "batch failed" ->
                /\ extractedFiles # <<>>
                /\ pc' = "stopped"
                /\ UNCHANGED <<importRecord, extractions>>
           [] env = "ok" ->
                /\ pc' = "parse_begin"
                /\ extractions' = extractedFiles
                /\ importRecord' = [importRecord EXCEPT !.Status = "parsing",
                                                        !.ProgressPercent = 40]
    /\ UNCHANGED <<zipFile, idx, totalSize, fileCount, extractedFiles, disk,
                   log, parseIdx, conversations, threadIdx,
                   parseLog, threadLog>>
    /\ UNCHANGED nonRunVars

\* ParseUpload line 84: the stored extractions of type conversation
Candidates == SelectSeq(extractions, LAMBDA e : e.FileType = "conversation")

\* ParseUpload lines 76-99: with no candidate file it returns an error and
\* leaves the Import row as it is
ParseBegin ==
    /\ pc = "parse_begin"
    /\ IF Len(Candidates) = 0
       THEN /\ pc' = "stopped"
            /\ UNCHANGED importRecord
       ELSE /\ pc' = "parse_loop"
            /\ importRecord' = [importRecord EXCEPT !.Status = "parsing",
                                                    !.ProgressPercent = 40]
    /\ UNCHANGED <<zipFile, idx, totalSize, fileCount, extractedFiles,
                   extractions, disk, log, parseIdx, conversations, threadIdx,
                   parseLog, threadLog>>
    /\ UNCHANGED nonRunVars

\* ParseUpload lines 105-126: one candidate file; a file that cannot be read
\* or parsed is logged and skipped, without a progress update
ParseFile ==
    /\ pc = "parse_loop"
    /\ parseIdx <= Len(Candidates)
    /\ \/ /\ parseLog' = Append(parseLog, "failed")
          /\ UNCHANGED <<importRecord, conversations>>
       \/ \E created \in 0..MaxConvsPerFile :
            /\ parseLog' = Append(parseLog, "parsed")
            /\ conversations' = conversations + created
            /\ importRecord' = [importRecord EXCEPT !.ProgressPercent =
                   40 + ((parseIdx * 30) \div Len(Candidates))]
    /\ parseIdx' = parseIdx + 1
    /\ UNCHANGED <<zipFile, pc, idx, totalSize, fileCount, extractedFiles,
                   extractions, disk, log, threadIdx, threadLog>>
    /\ UNCHANGED nonRunVars

\* ParseUpload lines 128-147
ParseFinish ==
    /\ pc = "parse_loop"
    /\ parseIdx > Len(Candidates)
    /\ pc' = "threads_begin"
    /\ importRecord' = [importRecord EXCEPT !.Status = "importing",
                                            !.ProgressPercent = 70]
    /\ UNCHANGED <<zipFile, idx, totalSize, fileCount, extractedFiles,
                   extractions, disk, log, parseIdx, conversations, threadIdx,
                   parseLog, threadLog>>
    /\ UNCHANGED nonRunVars

\* ThreadsBegin storing the status of the stage before
ThreadsBeginParsing ==
    /\ pc = "threads_begin"
    /\ pc' = "threads_loop"
    /\ importRecord' = [importRecord EXCEPT !.Status = "parsing",
                                            !.ProgressPercent = 70]
    /\ UNCHANGED <<zipFile, idx, totalSize, fileCount, extractedFiles,
                   extractions, disk, log, parseIdx, conversations, threadIdx,
                   parseLog, threadLog>>
    /\ UNCHANGED nonRunVars

\* CreateThreadsForUpload lines 31-50
ThreadsBegin ==
    /\ pc = "threads_begin"
    /\ pc' = "threads_loop"
    /\ importRecord' = [importRecord EXCEPT !.Status = "importing",
                                            !.ProgressPercent = 70]
    /\ UNCHANGED <<zipFile, idx, totalSize, fileCount, extractedFiles,
                   extractions, disk, log, parseIdx, conversations, threadIdx,
                   parseLog, threadLog>>
    /\ UNCHANGED nonRunVars

\* CreateThreadsForUpload lines 55-71: one conversation; a conversation whose
\* thread creation fails (its messages cannot be read, a thread batch write
\* fails) is logged and skipped, without a progress update
ThreadsConversation ==
    /\ pc = "threads_loop"
    /\ threadIdx <= conversations
    /\ \/ /\ threadLog' = Append(threadLog, "failed")
          /\ UNCHANGED importRecord
       \/ /\ threadLog' = Append(threadLog, "threads")
          /\ importRecord' = [importRecord EXCEPT !.ProgressPercent =
                 70 + ((threadIdx * 25) \div conversations)]
    /\ threadIdx' = threadIdx + 1
    /\ UNCHANGED <<zipFile, pc, idx, totalSize, fileCount, extractedFiles,
                   extractions, disk, log, parseIdx, conversations, parseLog>>
    /\ UNCHANGED nonRunVars

\* CreateThreadsForUpload lines 73-99
ThreadsFinish ==
    /\ pc = "threads_loop"
    /\ threadIdx > conversations
    /\ pc' = "stopped"
    /\ importRecord' = [importRecord EXCEPT !.Status = "completed",
                                            !.ProgressPercent = 100]
    /\ UNCHANGED <<zipFile, idx, totalSize, fileCount, extractedFiles,
                   extractions, disk, log, parseIdx, conversations, threadIdx,
                   parseLog, threadLog>>
    /\ UNCHANGED nonRunVars

Next ==
    \/ ExtractBegin
    \/ ExtractEntry
    \/ ExtractFinish
    \/ ParseBegin
    \/ ParseFile
    \/ ParseFinish
    \/ ThreadsBegin
    \/ ThreadsConversation
    \/ ThreadsFinish

Spec == Init /\ [][Next]_vars

\* the background goroutine of the handler runs until it returns
FairSpec == Spec /\ WF_vars(Next)

\* PathSpec: the same Run on an archive in which one entry has any name of up
\* to MaxNameLen tokens and any size, beside empty files named "a"
InsertAt(s, i, e) == SubSeq(s, 1, i - 1) \o <<e>> \o SubSeq(s, i, Len(s))

\* archives of entries named "a" with one entry of any name at any position
PathArchives ==
    UNION {{InsertAt(rest, i, e) :
               i \in 1..(Len(rest) + 1),
               e \in [Name : PathNames, UncompressedSize64 : EntrySizes]} :
           rest \in SeqsUpTo({[Name |-> <<"a">>, UncompressedSize64 |-> 0]},
                             MaxEntries - 1)}

PathInit ==
    /\ NoParserRun
    /\ NoUploads
    /\ NoLater
    /\ NoImport
    /\ RunStart
    /\ zipFile \in PathArchives

\* ExtractUpload alone
PathNext ==
    \/ ExtractBegin
    \/ ExtractEntry
    \/ ExtractFinish

PathSpec == PathInit /\ [][PathNext]_vars

----------------------------------------------------------------------------
(* UploadSpec: upload requests and deletions *)

Hashes == 1..MaxHashes

\* the duplicate check of UploadFile (upload.go:79-84): a query by file_hash,
\* which GORM scopes to the rows that are not soft-deleted
DuplicateFound(hash) ==
    \E u \in 1..Len(uploads) : uploads[u].FileHash = hash /\ ~uploads[u].Deleted

\* no unique index on uploads.file_hash
NoUniqueIndex(hash) == FALSE

\* the unique index on uploads.file_hash covers soft-deleted rows as well
UniqueHashViolated(hash) ==
    \E u \in 1..Len(uploads) : uploads[u].FileHash = hash

\* handlers.go:103: the error text contains "already uploaded"
IsDuplicateError(err) == err = "file already uploaded"

\* the handler's answer to an error of uploadService.UploadFile
ErrorResponse(err) ==
    IF IsDuplicateError(err) THEN "DUPLICATE_UPLOAD" ELSE "UPLOAD_ERROR"

\* UploadFile (handlers.go:80-135 with upload.go:36-139): the content is
\* written to a temporary file and hashed; a duplicate is refused; otherwise
\* the file is renamed and the Upload and Import rows are created in one
\* transaction, and the background task is started. The temporary file is
\* removed on every return.
UploadFile(hash) ==
    /\ requests < MaxUploads
    /\ requests' = requests + 1
    /\ \E env \in {"ok", "temp failed", "write failed", "rename failed", "tx failed"} :
         LET err ==
               IF env = "temp failed" THEN "failed to create temp file"
               ELSE IF env = "write failed" THEN "failed to write file"
               ELSE IF DuplicateFound(hash) THEN "file already uploaded"
               ELSE IF env = "rename failed" THEN "failed to rename temp file"
               ELSE IF env = "tx failed" \/ UniqueHashViolated(hash)
                    THEN "failed to create upload record"
               ELSE ""
         IN IF err # ""
            THEN /\ response' = [hash |-> hash, code |-> ErrorResponse(err),
                                  err |-> err]
                 /\ UNCHANGED <<uploads, imports, storedFiles, tempFiles, runs>>
            ELSE /\ uploads' = Append(uploads, [FileHash |-> hash, Deleted |-> FALSE])
                 /\ imports' = imports \cup {Len(uploads) + 1}
                 /\ storedFiles' = storedFiles \cup {requests + 1}
                 /\ runs' = runs \cup {Len(uploads) + 1}
                 /\ response' = [hash |-> hash, code |-> "created", err |-> ""]
                 /\ UNCHANGED tempFiles
    /\ UNCHANGED <<parserVars, runVars, storeVars, batchVars, laterVars>>

\* DeleteUpload (upload.go:178-197): a soft delete of the Upload row; the
\* stored file and the other rows stay
DeleteUpload(id) ==
    /\ id \in 1..Len(uploads)
    /\ ~uploads[id].Deleted
    /\ uploads' = [uploads EXCEPT ![id].Deleted = TRUE]
    /\ UNCHANGED <<imports, storedFiles, tempFiles, runs, requests, response>>
    /\ UNCHANGED <<parserVars, runVars, storeVars, batchVars, laterVars>>

UploadInit ==
    /\ NoParserRun
    /\ NoRun
    /\ NoUploads
    /\ NoLater
    /\ NoImport

UploadNext ==
    \/ \E hash \in Hashes : UploadFile(hash)
    \/ \E id \in 1..MaxUploads : DeleteUpload(id)

UploadSpec == UploadInit /\ [][UploadNext]_vars

----------------------------------------------------------------------------
(* ImportSpec: ParseUpload over the candidate files of one Run, with the     *)
(* Conversation and Message rows it stores                                   *)

\* a node without parent and without children holding a finished message
LeafNode == [Message |-> "finished", Parent |-> "nil", Children |-> <<>>]

\* the conversations an export may hold: one with one parentless node and
\* one with two parentless nodes
ImportMappings == {[id \in 1..n |-> LeafNode] : n \in {1, 2}}

\* a candidate file is unreadable or malformed JSON (Valid = FALSE), or an
\* export of up to MaxConvsPerFile conversations
CandidateFiles ==
    {[Valid |-> FALSE, Export |-> <<>>]}
        \cup {[Valid |-> TRUE, Export |-> e] : e \in SeqsUpTo(ImportMappings, MaxConvsPerFile)}

\* a lookup that passes over the rows without messages
ExistingConversationWithMessages(cid) ==
    {k \in 1..Len(convStore) : /\ convStore[k].ConversationID = cid
                               /\ convStore[k].MessageCount > 0}

\* the lookup of processConversation (parser.go:201-207) within the one Run
ExistingConversation(cid) ==
    {k \in 1..Len(convStore) : convStore[k].ConversationID = cid}

\* the progress written after file i of n was parsed (parser.go:123)
ParseProgress(i, n) == 40 + ((i * 30) \div n)

\* ParseUpload up to the loop (parser.go:76-99): without candidate files it
\* returns an error and leaves the Import row alone
ImportBegin ==
    /\ pc = "parse_begin"
    /\ IF files = <<>>
       THEN /\ pc' = "stopped"
            /\ UNCHANGED importRecord
       ELSE /\ pc' = "parse_loop"
            /\ importRecord' = [importRecord EXCEPT !.Status = "parsing",
                                                    !.ProgressPercent = 40]
    /\ UNCHANGED runRest
    /\ UNCHANGED <<parserVars, uploadVars, storeVars, batchVars, laterVars>>

\* a malformed file that ends the Run as failed
ImportMalformedFileFailingRun ==
    /\ pc = "parse_loop"
    /\ fileIdx <= Len(files)
    /\ ~files[fileIdx].Valid
    /\ pc' = "stopped"
    /\ importRecord' = Failed("failed to parse JSON")
    /\ fileLog' = Append(fileLog, "failed")
    /\ UNCHANGED <<files, fileIdx, convIdx, convStore, msgStore, importLog>>
    /\ UNCHANGED runRest
    /\ UNCHANGED <<parserVars, uploadVars, batchVars, laterVars>>

\* the loop body of ParseUpload on a file that parseConversationFile cannot
\* read or unmarshal (parser.go:106-113 with 150-161): a warning, and on to
\* the next file
ImportMalformedFile ==
    /\ pc = "parse_loop"
    /\ fileIdx <= Len(files)
    /\ ~files[fileIdx].Valid
    /\ fileLog' = Append(fileLog, "failed")
    /\ fileIdx' = fileIdx + 1
    /\ UNCHANGED <<files, convIdx, convStore, msgStore, importLog>>
    /\ UNCHANGED runVars
    /\ UNCHANGED <<parserVars, uploadVars, batchVars, laterVars>>

\* one iteration of the loop of parseConversationFile (parser.go:166-183)
\* with processConversation (parser.go:189-240): the identifier is computed
\* from the mapping; an existing row of the Run with that identifier is
\* returned with its message count, which is saved again; otherwise the row
\* is created, the messages are written, and the count is saved. A failed
\* Create stores nothing; a failed message write leaves the row with count 0.
ImportConversation ==
    /\ pc = "parse_loop"
    /\ fileIdx <= Len(files)
    /\ files[fileIdx].Valid
    /\ convIdx <= Len(files[fileIdx].Export)
    /\ LET conv == files[fileIdx].Export[convIdx]
       IN \E cid \in findRootMessageID(conv), root \in findRootID(conv),
             env \in {"ok", "create failed", "batch failed"} :
            LET existing == ExistingConversation(cid)
                msgs == processMessages(conv, root).messages
                row == Len(convStore) + 1
                entry(outcome) == [file |-> fileIdx, conv |-> conv,
                                   cid |-> cid, outcome |-> outcome]
            IN IF existing # {}
               THEN LET k == CHOOSE e \in existing : \A o \in existing : e <= o
                    IN /\ convStore' = [convStore EXCEPT ![k].MessageCount =
                                            convStore[k].MessageCount]
                       /\ importLog' = Append(importLog, entry("existing"))
                       /\ UNCHANGED msgStore
               ELSE IF env = "create failed"
               THEN /\ importLog' = Append(importLog, entry("failed"))
                    /\ UNCHANGED <<convStore, msgStore>>
               ELSE IF env = "batch failed" /\ msgs # <<>>
               THEN /\ convStore' = Append(convStore,
                            [ConversationID |-> cid, MessageCount |-> 0,
                             SourceFile |-> fileIdx])
                    /\ importLog' = Append(importLog, entry("failed"))
                    /\ UNCHANGED msgStore
               ELSE /\ convStore' = Append(convStore,
                            [ConversationID |-> cid, MessageCount |-> Len(msgs),
                             SourceFile |-> fileIdx])
                    /\ msgStore' = msgStore \o
                            [i \in 1..Len(msgs) |->
                                [Conversation |-> row,
                                 MessageIndex |-> msgs[i].MessageIndex]]
                    /\ importLog' = Append(importLog, entry("created"))
    /\ convIdx' = convIdx + 1
    /\ UNCHANGED <<files, fileIdx, fileLog>>
    /\ UNCHANGED runVars
    /\ UNCHANGED <<parserVars, uploadVars, batchVars, laterVars>>

\* the rest of the loop body of ParseUpload after parseConversationFile
\* returned without error (parser.go:115-125)
ImportFileParsed ==
    /\ pc = "parse_loop"
    /\ fileIdx <= Len(files)
    /\ files[fileIdx].Valid
    /\ convIdx > Len(files[fileIdx].Export)
    /\ fileLog' = Append(fileLog, "parsed")
    /\ importRecord' = [importRecord EXCEPT !.ProgressPercent =
                            ParseProgress(fileIdx, Len(files))]
    /\ fileIdx' = fileIdx + 1
    /\ convIdx' = 1
    /\ UNCHANGED <<files, convStore, msgStore, importLog>>
    /\ UNCHANGED <<pc, runRest>>
    /\ UNCHANGED <<parserVars, uploadVars, batchVars, laterVars>>

\* ParseUpload after the loop (parser.go:128-146)
ImportFinish ==
    /\ pc = "parse_loop"
    /\ fileIdx > Len(files)
    /\ pc' = "threads_begin"
    /\ importRecord' = [importRecord EXCEPT !.Status = "importing",
                                            !.ProgressPercent = 70]
    /\ UNCHANGED runRest
    /\ UNCHANGED <<parserVars, uploadVars, storeVars, batchVars, laterVars>>

\* the Run after ExtractUpload returned without error, with any candidate files
ImportInit ==
    /\ NoParserRun
    /\ NoUploads
    /\ NoLater
    /\ zipFile = <<>>
    /\ pc = "parse_begin"
    /\ importRecord = [NewImport EXCEPT !.Status = "parsing", !.ProgressPercent = 40]
    /\ idx = 1
    /\ totalSize = 0
    /\ fileCount = 0
    /\ extractedFiles = <<>>
    /\ extractions = <<>>
    /\ disk = {}
    /\ log = <<>>
    /\ parseIdx = 1
    /\ conversations = 0
    /\ threadIdx = 1
    /\ parseLog = <<>>
    /\ threadLog = <<>>
    /\ files \in SeqsUpTo(CandidateFiles, MaxFiles)
    /\ fileIdx = 1
    /\ convIdx = 1
    /\ convStore = <<>>
    /\ msgStore = <<>>
    /\ importLog = <<>>
    /\ fileLog = <<>>
    /\ batchMessages = <<>>
    /\ batchAt = 0
    /\ batches = <<>>
    /\ batchState = "idle"
    /\ messageCount = 0
    /\ lastWrite = NoWrite

ImportNext ==
    \/ ImportBegin
    \/ ImportMalformedFile
    \/ ImportConversation
    \/ ImportFileParsed
    \/ ImportFinish

ImportSpec == ImportInit /\ [][ImportNext]_vars

\* the background goroutine of the handler runs until ParseUpload returns
FairImportSpec == ImportSpec /\ WF_vars(ImportNext)

----------------------------------------------------------------------------
(* BatchSpec: the batch writes of the messages of one conversation         *)

\* the slice processMessages returns for n emitted messages: sorted by
\* MessageIndex, which runs from 0
EmittedMessages(n) == [k \in 1..n |-> k - 1]

\* an end of batch that leaves the last message of a full batch out
BatchEndShort(i, n) == IF i + BatchSize >= n THEN n ELSE i + BatchSize - 1

\* end := i + batchSize, cut to len(messages) (parser.go:224-227)
BatchEnd(i, n) == IF i + BatchSize > n THEN n ELSE i + BatchSize

\* a failing write that takes the committed batches with it
WriteBatchRollingBack ==
    /\ batchState = "writing"
    /\ batchAt < Len(batchMessages)
    /\ \E env \in {"ok", "write failed", "database is locked"} :
         IF env # "ok"
         THEN /\ batchState' = "failed"
              /\ batches' = <<>>
              /\ lastWrite' = [calls |-> 1, err |-> env]
              /\ UNCHANGED batchAt
         ELSE /\ batches' = Append(batches,
                      SubSeq(batchMessages, batchAt + 1,
                             BatchEnd(batchAt, Len(batchMessages))))
              /\ batchAt' = batchAt + BatchSize
              /\ lastWrite' = [calls |-> 1, err |-> ""]
              /\ UNCHANGED batchState
    /\ UNCHANGED <<batchMessages, messageCount>>
    /\ UNCHANGED <<parserVars, runVars, uploadVars, storeVars, laterVars>>

\* one iteration of the batch loop (parser.go:223-231): CreateInBatches of
\* messages[i:end] is called once; it is one write of its own, outside any
\* enclosing transaction; when it fails, with a contention error of the
\* database or another error, processConversation returns the error
WriteBatch ==
    /\ batchState = "writing"
    /\ batchAt < Len(batchMessages)
    /\ \E env \in {"ok", "write failed", "database is locked"} :
         IF env # "ok"
         THEN /\ batchState' = "failed"
              /\ lastWrite' = [calls |-> 1, err |-> env]
              /\ UNCHANGED <<batches, batchAt>>
         ELSE /\ batches' = Append(batches,
                      SubSeq(batchMessages, batchAt + 1,
                             BatchEnd(batchAt, Len(batchMessages))))
              /\ batchAt' = batchAt + BatchSize
              /\ lastWrite' = [calls |-> 1, err |-> ""]
              /\ UNCHANGED batchState
    /\ UNCHANGED <<batchMessages, messageCount>>
    /\ UNCHANGED <<parserVars, runVars, uploadVars, storeVars, laterVars>>

\* the loop condition fails: every message was handed to a write;
\* processConversation returns len(messages), which parseConversationFile
\* saves as the MessageCount of the row (parser.go:181-182)
BatchesDone ==
    /\ batchState = "writing"
    /\ batchAt >= Len(batchMessages)
    /\ batchState' = "done"
    /\ messageCount' = Len(batchMessages)
    /\ UNCHANGED <<batchMessages, batchAt, batches, lastWrite>>
    /\ UNCHANGED <<parserVars, runVars, uploadVars, storeVars, laterVars>>

\* processConversation at line 220, with any number of emitted messages; the
\* conversation row was created with MessageCount 0 (parser.go:198, 210)
BatchInit ==
    /\ NoParserRun
    /\ NoRun
    /\ NoUploads
    /\ NoLater
    /\ files = <<>>
    /\ fileIdx = 1
    /\ convIdx = 1
    /\ convStore = <<>>
    /\ msgStore = <<>>
    /\ importLog = <<>>
    /\ fileLog = <<>>
    /\ batchMessages \in {EmittedMessages(n) : n \in 0..MaxMessages}
    /\ batchAt = 0
    /\ batches = <<>>
    /\ batchState = "writing"
    /\ messageCount = 0
    /\ lastWrite = NoWrite

BatchNext ==
    \/ WriteBatch
    \/ BatchesDone

BatchSpec == BatchInit /\ [][BatchNext]_vars

----------------------------------------------------------------------------
(* SegmentSpec: createThreadsForConversation on the stored messages        *)

\* the conversations, UTC calendar days and times of day of the small stores
SegConversations == {1, 2}
SegDates == {1, 2}
SegTimes == {0, 1}

\* a stored message: its conversation and the UTC day and time of day of its
\* timestamp. Conversation 1 has messages of any day and time, conversation 2
\* messages of one day and time.
SegMessage ==
    [ConversationID : {1}, Date : SegDates, Time : SegTimes]
        \cup {[ConversationID |-> 2, Date |-> 1, Time |-> 0]}

\* conversation 1 with one message on each of n days; with MaxSegDates days
\* it has more days than a thread batch holds
LongStore(n) == [k \in 1..n |-> [ConversationID |-> 1, Date |-> k, Time |-> 0]]

\* the stores of SegmentSpec: every store of up to MaxSegMessages messages
MessageStores == SeqsUpTo(SegMessage, MaxSegMessages)

\* the ids of the messages of conversation c (the query of thread.go:106-108)
ConvMessages(c) == {k \in 1..Len(segMessages) : segMessages[k].ConversationID = c}

\* Message.MessageIndex: the position among the messages of the conversation
MessageIndexOf(k) ==
    Cardinality({j \in 1..(k - 1) :
                    segMessages[j].ConversationID = segMessages[k].ConversationID})

\* messagesByDate[d] of conversation c
Bucket(c, d) ==
    {k \in 1..Len(segMessages) :
        segMessages[k].ConversationID = c /\ segMessages[k].Date = d}

\* the keys of messagesByDate
DatesOf(c) == {segMessages[k].Date : k \in ConvMessages(c)}

\* a lookup that finds nothing
ExistingDatesNone(c) == {}

\* the dates for which the lookup of thread.go:134-140 finds a Thread of
\* conversation c
ExistingDates(c) ==
    {threads[t].Date : t \in {u \in 1..Len(threads) : threads[u].ConversationID = c}}

\* time.Time of message k, and Before on two of them
TimestampOf(k) == [Date |-> segMessages[k].Date, Time |-> segMessages[k].Time]
Before(a, b) == a.Date < b.Date \/ (a.Date = b.Date /\ a.Time < b.Time)

\* the query orders by timestamp and sort.Slice sorts by timestamp; neither
\* fixes the order of messages with equal timestamps. rank is that order:
\* any order of the ids. Stores above MaxSegMessages have no equal
\* timestamps in a bucket, and keep the order of the ids.
TieBreaks(ids) ==
    IF Cardinality(ids) <= MaxSegMessages
    THEN {r \in [ids -> 1..Cardinality(ids)] :
             \A a, b \in ids : a # b => r[a] # r[b]}
    ELSE {[k \in ids |-> k]}

\* dateMessages after the sort: a comes before b
SortsBefore(a, b, rank) ==
    \/ Before(TimestampOf(a), TimestampOf(b))
    \/ (TimestampOf(a) = TimestampOf(b) /\ rank[a] < rank[b])

\* dateMessages[0] and dateMessages[len-1]
FirstOf(bucket, rank) ==
    CHOOSE k \in bucket : \A j \in bucket \ {k} : SortsBefore(k, j, rank)
LastOf(bucket, rank) ==
    CHOOSE k \in bucket : \A j \in bucket \ {k} : SortsBefore(j, k, rank)

\* a Thread with start and end timestamp exchanged
NewThreadSwapped(c, d, rank) ==
    LET dateMessages == Bucket(c, d)
        startMsg == FirstOf(dateMessages, rank)
        endMsg == LastOf(dateMessages, rank)
    IN [ConversationID |-> c, Date |-> d,
        MessageCount |-> Cardinality(dateMessages),
        StartMessageID |-> startMsg, EndMessageID |-> endMsg,
        StartTimestamp |-> TimestampOf(endMsg),
        EndTimestamp |-> TimestampOf(startMsg)]

\* a Thread counting the messages of the whole conversation
NewThreadCountingAll(c, d, rank) ==
    LET startMsg == FirstOf(Bucket(c, d), rank)
        endMsg == LastOf(Bucket(c, d), rank)
    IN [ConversationID |-> c, Date |-> d,
        MessageCount |-> Cardinality(ConvMessages(c)),
        StartMessageID |-> startMsg, EndMessageID |-> endMsg,
        StartTimestamp |-> TimestampOf(startMsg),
        EndTimestamp |-> TimestampOf(endMsg)]

\* the Thread of thread.go:172-180 for date d of conversation c
NewThread(c, d, rank) ==
    LET dateMessages == Bucket(c, d)
        startMsg == FirstOf(dateMessages, rank)
        endMsg == LastOf(dateMessages, rank)
    IN [ConversationID |-> c, Date |-> d,
        MessageCount |-> Cardinality(dateMessages),
        StartMessageID |-> startMsg, EndMessageID |-> endMsg,
        StartTimestamp |-> TimestampOf(startMsg),
        EndTimestamp |-> TimestampOf(endMsg)]

\* the validations of thread.go:151-154 and 167-170 reject the Thread
Rejected(c, t) ==
    \/ segMessages[t.StartMessageID].ConversationID # c
    \/ segMessages[t.EndMessageID].ConversationID # c
    \/ Before(TimestampOf(t.EndMessageID), TimestampOf(t.StartMessageID))

\* no day of a store is above LastDay
LastDay == Cardinality(SegDates) + Len(segMessages)

\* the days of set D in ascending and in descending order
Ascending(D) == SelectSeq([i \in 1..LastDay |-> i], LAMBDA d : d \in D)
Descending(D) ==
    SelectSeq([i \in 1..LastDay |-> LastDay + 1 - i], LAMBDA d : d \in D)

\* the order in which the loop over messagesByDate visits the dates: Go's
\* map iteration order is unspecified. The small stores have at most two
\* days, so these are all their orders; of the orders of a store with more
\* days the model takes these two.
Orders(D) == {Ascending(D), Descending(D)}

\* end := i + batchSize, cut to len(threads) (thread.go:189-192)
ThreadBatchEnd(i, n) == IF i + ThreadBatchSize > n THEN n ELSE i + ThreadBatchSize

\* createThreadsForConversation up to the batch loop (thread.go:103-183):
\* the messages of the conversation are read; without messages it returns;
\* a Thread is built for every date that has none; a Thread that fails a
\* validation makes it return an error
SegmentBegin(c) ==
    /\ segState = "idle"
    /\ LET existing == ExistingDates(c)
           began(outcome) ==
               [segLog EXCEPT ![c].startedEmpty = (outcome = "running" /\ existing = {}),
                              ![c].fromNothing = @ \/ (outcome = "ok" /\ existing = {})]
       IN \E env \in {"ok", "query failed"} :
          \E rank \in TieBreaks(ConvMessages(c)) :
          \E order \in Orders(DatesOf(c) \ existing) :
          \E new \in {[i \in 1..Len(order) |-> NewThread(c, order[i], rank)] \o <<>>} :
            IF env = "query failed"
            THEN /\ segLog' = began("failed")
                 /\ UNCHANGED <<segConv, segPending, segAt, segState>>
            ELSE IF ConvMessages(c) = {}
            THEN /\ segLog' = began("ok")
                 /\ UNCHANGED <<segConv, segPending, segAt, segState>>
            ELSE IF \E i \in 1..Len(new) : Rejected(c, new[i])
            THEN /\ segLog' = began("failed")
                 /\ UNCHANGED <<segConv, segPending, segAt, segState>>
            ELSE /\ segConv' = c
                 /\ segPending' = new
                 /\ segAt' = 0
                 /\ segState' = "writing"
                 /\ segLog' = began("running")
    /\ UNCHANGED <<segMessages, threads>>
    /\ UNCHANGED nonSegVars

\* one iteration of the batch loop (thread.go:188-196): a write of its own;
\* when it fails, createThreadsForConversation returns the error
SegmentBatch ==
    /\ segState = "writing"
    /\ segAt < Len(segPending)
    /\ \E env \in {"ok", "write failed"} :
         IF env = "write failed"
         THEN /\ segState' = "idle"
              /\ segLog' = [segLog EXCEPT ![segConv].startedEmpty = FALSE,
                                          ![segConv].partial = @ \/ segAt > 0]
              /\ UNCHANGED <<threads, segAt>>
         ELSE /\ threads' = threads \o SubSeq(segPending, segAt + 1,
                                ThreadBatchEnd(segAt, Len(segPending)))
              /\ segAt' = segAt + ThreadBatchSize
              /\ UNCHANGED <<segState, segLog>>
    /\ UNCHANGED <<segMessages, segConv, segPending>>
    /\ UNCHANGED nonSegVars

\* the batch loop has ended: createThreadsForConversation returns nil
SegmentDone ==
    /\ segState = "writing"
    /\ segAt >= Len(segPending)
    /\ segState' = "idle"
    /\ segLog' = [segLog EXCEPT
                    ![segConv].startedEmpty = FALSE,
                    ![segConv].fromNothing = @ \/ segLog[segConv].startedEmpty,
                    ![segConv].resumed =
                        @ \/ (segLog[segConv].partial /\ segPending # <<>>)]
    /\ UNCHANGED <<segMessages, threads, segConv, segPending, segAt>>
    /\ UNCHANGED nonSegVars

\* any stored messages, and no Thread yet
SegmentInit ==
    /\ NoParserRun
    /\ NoRun
    /\ NoUploads
    /\ NoImport
    /\ NoLaterButSegment
    /\ segMessages \in MessageStores
    /\ threads = <<>>
    /\ segConv = 0
    /\ segPending = <<>>
    /\ segAt = 0
    /\ segState = "idle"
    /\ segLog = NoRuns

SegmentNext ==
    \/ \E c \in SegConversations : SegmentBegin(c)
    \/ SegmentBatch
    \/ SegmentDone

SegmentSpec == SegmentInit /\ [][SegmentNext]_vars

\* ResegmentSpec: the same runs, also on a conversation whose Threads take
\* more than one batch
ResegmentInit ==
    /\ NoParserRun
    /\ NoRun
    /\ NoUploads
    /\ NoImport
    /\ NoLaterButSegment
    /\ segMessages \in MessageStores \cup {LongStore(MaxSegDates)}
    /\ threads = <<>>
    /\ segConv = 0
    /\ segPending = <<>>
    /\ segAt = 0
    /\ segState = "idle"
    /\ segLog = NoRuns

ResegmentSpec == ResegmentInit /\ [][SegmentNext]_vars

----------------------------------------------------------------------------
(* RetrySpec: one call of database.RetryWithBackoff (db.go:176-200)          *)

MaxRetries == 4
MaxDelay == 2

\* the errors fn returns; "" is nil
RetryErrors == {"database is locked", "database locked", "disk full"}

\* isDatabaseLocked (db.go:203-209): the text of the error contains
\* "database is locked" or "database locked"
isDatabaseLocked(err) == err \in {"database is locked", "database locked"}

\* the values of initialDelay; the doubling of a time.Duration (int64
\* nanoseconds) overflows only after a sleep of 2^62 ns, which no call lives
\* to see, so the delays are plain integers
RetryDelays == 0..MaxDelay

Call(err) == [op |-> "call", err |-> err, d |-> 0]
Sleep(d) == [op |-> "sleep", err |-> "", d |-> d]

\* delay after the sleep, not doubled
SameDelay(d) == d

\* delay *= 2 (db.go:191)
NextDelay(d) == 2 * d

\* one iteration of the loop (db.go:180-197): fn is called; nil returns nil;
\* a locked error before the last iteration sleeps for delay, doubles it and
\* continues; any other error, and a locked error of the last iteration, is
\* returned
RetryAttempt ==
    /\ retryState = "looping"
    /\ retryI < maxRetries
    /\ \E err \in RetryErrors \cup {""} :
         /\ retryErr' = err
         /\ IF err # "" /\ isDatabaseLocked(err) /\ retryI < maxRetries - 1
            THEN /\ retryLog' = retryLog \o <<Call(err), Sleep(delay)>>
                 /\ delay' = NextDelay(delay)
                 /\ retryI' = retryI + 1
                 /\ UNCHANGED retryState
            ELSE /\ retryLog' = Append(retryLog, Call(err))
                 /\ retryState' = "returned"
                 /\ UNCHANGED <<delay, retryI>>
    /\ UNCHANGED <<maxRetries, initialDelay>>
    /\ UNCHANGED nonRetryVars

\* the loop condition fails (db.go:180, 199): err is returned; this is
\* reached only when maxRetries is not positive, with err nil
RetryLoopEnd ==
    /\ retryState = "looping"
    /\ retryI >= maxRetries
    /\ retryState' = "returned"
    /\ UNCHANGED <<maxRetries, initialDelay, retryI, delay, retryErr, retryLog>>
    /\ UNCHANGED nonRetryVars

\* the call of RetryWithBackoff after delay := initialDelay (db.go:177-178)
RetryInit ==
    /\ NoParserRun
    /\ NoRun
    /\ NoUploads
    /\ NoImport
    /\ NoSegment
    /\ NoArtifacts
    /\ NoRace
    /\ maxRetries \in 0..MaxRetries
    /\ initialDelay \in RetryDelays
    /\ retryI = 0
    /\ delay = initialDelay
    /\ retryErr = ""
    /\ retryLog = <<>>
    /\ retryState = "looping"

RetryNext ==
    \/ RetryAttempt
    \/ RetryLoopEnd

RetrySpec == RetryInit /\ [][RetryNext]_vars

----------------------------------------------------------------------------
(* ArtifactSpec, ConcurrentArtifactSpec: extractUserMessagesByDate           *)
(* (parser.go:341-385), called by one Run for one conversation after the     *)
(* other, or by two Runs at the same time                                    *)

MaxArtMessages == 2

ArtRuns == {1, 2}
ArtConversations == {1, 2}
ArtDates == {1, 2}

\* the messages of the conversations: user messages at two times of day 1
\* and on day 2, and an assistant message
ArtMessage ==
    [Role : {"user"}, Date : {1}, Time : {0, 1}]
        \cup {[Role |-> "user", Date |-> 2, Time |-> 0],
               [Role |-> "assistant", Date |-> 1, Time |-> 0]}

ArtSlices == SeqsUpTo(ArtMessage, MaxArtMessages)

\* the lines of a date file: the heading of a section, and the entry of a
\* message with its time of day and its content; the content of a message
\* is named by its conversation and its position
Heading(d) == [kind |-> "heading", date |-> d, time |-> 0, content |-> <<>>]
Entry(c, k) ==
    [kind |-> "entry", date |-> artConvs[c][k].Date,
     time |-> artConvs[c][k].Time, content |-> <<c, k>>]

\* messagesByDate[d] (parser.go:345-350): the positions of the user-role
\* messages of conversation c on date d
UserMessagesOn(c, d) ==
    {k \in 1..Len(artConvs[c]) :
        artConvs[c][k].Role = "user" /\ artConvs[c][k].Date = d}

\* the keys of messagesByDate
UserDates(c) == {d \in ArtDates : UserMessagesOn(c, d) # {}}

\* the outcomes of sort.Slice by timestamp (parser.go:355-357): every
\* arrangement of the messages in which no message is before an earlier one
SortedByTime(c, ks) ==
    {order \in [1..Cardinality(ks) -> ks] :
        /\ \A i, j \in 1..Cardinality(ks) : i # j => order[i] # order[j]
        /\ \A i, j \in 1..Cardinality(ks) :
              i < j => artConvs[c][order[i]].Time <= artConvs[c][order[j]].Time}

\* the section built for a date (parser.go:363-370)
Section(c, d, order) ==
    <<Heading(d)>> \o [i \in 1..Len(order) |-> Entry(c, order[i])]

\* the file written without what was read
Overwritten(section, existing) == section

\* the file written (parser.go:373-377): the section, then the existing
\* content when there is some
Written(section, existing) == section \o existing

\* the locals of a Run that is not in extractUserMessagesByDate
Resting == [conv |-> 0, dates |-> {}, date |-> 0, existing |-> <<>>, pc |-> "idle"]

\* a Run calls extractUserMessagesByDate for its next conversation
\* (parser.go:235, 341-350); with no user message it returns nil at once
ArtifactBegin(r) ==
    /\ extracting[r].pc = "idle"
    /\ artQueue[r] # <<>>
    /\ LET c == Head(artQueue[r])
       IN /\ artQueue' = [artQueue EXCEPT ![r] = Tail(@)]
          /\ IF UserDates(c) = {}
             THEN /\ artLog' = [artLog EXCEPT !.done = @ \cup {c}]
                  /\ UNCHANGED extracting
             ELSE /\ extracting' = [extracting EXCEPT ![r] =
                         [conv |-> c, dates |-> UserDates(c), date |-> 0,
                          existing |-> <<>>, pc |-> "read"]]
                  /\ UNCHANGED artLog
    /\ UNCHANGED <<artConvs, artifacts>>
    /\ UNCHANGED nonArtifactVars

\* the loop takes a date of the map, in no fixed order, and os.ReadFile
\* reads the file (parser.go:353, 373); its error is dropped, so a failed
\* read is an empty existing content
ArtifactRead(r) ==
    /\ extracting[r].pc = "read"
    /\ \E d \in extracting[r].dates :
       \E env \in {"ok", "read failed"} :
         /\ extracting' = [extracting EXCEPT
                ![r].date = d,
                ![r].existing = IF env = "ok" THEN artifacts[d] ELSE <<>>,
                ![r].pc = "write"]
         /\ artLog' = [artLog EXCEPT
                !.failed = @ \/ (env = "read failed" /\ artifacts[d] # <<>>)]
    /\ UNCHANGED <<artConvs, artQueue, artifacts>>
    /\ UNCHANGED nonArtifactVars

\* os.WriteFile of the section and the existing content (parser.go:374-381);
\* a failed write leaves the file as it was or truncated, and the function
\* returns the error
ArtifactWrite(r) ==
    /\ extracting[r].pc = "write"
    /\ LET c == extracting[r].conv
           d == extracting[r].date
           rest == extracting[r].dates \ {d}
       IN \E env \in {"ok", "open failed", "write failed"} :
          \E order \in SortedByTime(c, UserMessagesOn(c, d)) :
            IF env = "ok"
            THEN /\ artifacts' = [artifacts EXCEPT ![d] =
                        Written(Section(c, d, order), extracting[r].existing)]
                 /\ IF rest = {}
                    THEN /\ extracting' = [extracting EXCEPT ![r] = Resting]
                         /\ artLog' = [artLog EXCEPT !.done = @ \cup {c}]
                    ELSE /\ extracting' = [extracting EXCEPT
                                ![r].dates = rest, ![r].date = 0,
                                ![r].existing = <<>>, ![r].pc = "read"]
                         /\ UNCHANGED artLog
            ELSE /\ artifacts' = [artifacts EXCEPT ![d] =
                        IF env = "write failed" THEN <<>> ELSE @]
                 /\ extracting' = [extracting EXCEPT ![r] = Resting]
                 /\ artLog' = [artLog EXCEPT !.failed = TRUE]
    /\ UNCHANGED <<artConvs, artQueue>>
    /\ UNCHANGED nonArtifactVars

\* no date file exists and no Run is in extractUserMessagesByDate
ArtifactStart ==
    /\ NoParserRun
    /\ NoRun
    /\ NoUploads
    /\ NoImport
    /\ NoSegment
    /\ NoRetry
    /\ NoRace
    /\ artConvs \in [ArtConversations -> ArtSlices]
    /\ extracting = [r \in ArtRuns |-> Resting]
    /\ artifacts = [d \in ArtDates |-> <<>>]
    /\ artLog = [done |-> {}, failed |-> FALSE]

\* one Run parses both conversations, one after the other (parser.go:167-183)
ArtifactInit ==
    /\ ArtifactStart
    /\ artQueue \in {[r \in ArtRuns |-> IF r = 1 THEN q ELSE <<>>] :
                        q \in {<<1, 2>>, <<2, 1>>}}

\* two Runs, started by two uploads (handlers.go:112-130), parse one
\* conversation each
ConcurrentArtifactInit ==
    /\ ArtifactStart
    /\ artQueue = [r \in ArtRuns |-> <<r>>]

ArtifactNext ==
    \E r \in ArtRuns :
        \/ ArtifactBegin(r)
        \/ ArtifactRead(r)
        \/ ArtifactWrite(r)

ArtifactSpec == ArtifactInit /\ [][ArtifactNext]_vars

ConcurrentArtifactSpec == ConcurrentArtifactInit /\ [][ArtifactNext]_vars

----------------------------------------------------------------------------
(* ConcurrentUploadSpec: upload requests handled at the same time, each one  *)
(* a call of UploadFile (handlers.go:80-135, upload.go:36-139) taken step by  *)
(* step                                                                      *)

UploadRequests == {1, 2}

\* the locals of a request: the hash of its content, where it is, the error it
\* returned, and whether a failed removal left its stored file behind
NewRequest(hash) == [hash |-> hash, pc |-> "start", err |-> "", leftover |-> FALSE]

\* the end of a request with an error
Returned(req, err) == [req EXCEPT !.pc = "failed", !.err = err]

\* the temporary file is created and the content copied and hashed
\* (upload.go:48-76); on an error the deferred os.Remove takes the temporary
\* file away
RequestCopy(r) ==
    /\ uploading[r].pc = "start"
    /\ \E env \in {"ok", "temp failed", "write failed"} :
         IF env = "ok"
         THEN /\ tempFiles' = tempFiles \cup {r}
              /\ uploading' = [uploading EXCEPT ![r].pc = "check"]
         ELSE /\ uploading' = [uploading EXCEPT ![r] =
                     Returned(@, IF env = "temp failed"
                                 THEN "failed to create temp file"
                                 ELSE "failed to write file")]
              /\ UNCHANGED tempFiles
    /\ UNCHANGED <<uploads, imports, storedFiles, runs, requests, response>>
    /\ UNCHANGED nonRaceVars

\* the duplicate check (upload.go:79-84), a query of its own
RequestCheck(r) ==
    /\ uploading[r].pc = "check"
    /\ IF DuplicateFound(uploading[r].hash)
       THEN /\ uploading' = [uploading EXCEPT ![r] =
                   Returned(@, "file already uploaded")]
            /\ tempFiles' = tempFiles \ {r}
       ELSE /\ uploading' = [uploading EXCEPT ![r].pc = "rename"]
            /\ UNCHANGED tempFiles
    /\ UNCHANGED <<uploads, imports, storedFiles, runs, requests, response>>
    /\ UNCHANGED nonRaceVars

\* os.Rename of the temporary file to the stored path (upload.go:86-89); the
\* stored path is made of a fresh UUID, so every request has its own
RequestRename(r) ==
    /\ uploading[r].pc = "rename"
    /\ \E env \in {"ok", "rename failed"} :
         IF env = "ok"
         THEN /\ storedFiles' = storedFiles \cup {r}
              /\ uploading' = [uploading EXCEPT ![r].pc = "transaction"]
         ELSE /\ uploading' = [uploading EXCEPT ![r] =
                     Returned(@, "failed to rename temp file")]
              /\ UNCHANGED storedFiles
    /\ tempFiles' = tempFiles \ {r}
    /\ UNCHANGED <<uploads, imports, runs, requests, response>>
    /\ UNCHANGED nonRaceVars

\* the transaction that creates the Upload and Import rows (upload.go:92-123);
\* it fails when the unique index on file_hash is violated; on its error the
\* stored file is removed, the error of os.Remove being dropped (125-129);
\* on success the handler starts the background task (handlers.go:112-130)
RequestTransaction(r) ==
    /\ uploading[r].pc = "transaction"
    /\ \E env \in {"ok", "tx failed", "remove failed"} :
         IF env = "tx failed" \/ UniqueHashViolated(uploading[r].hash)
         THEN /\ uploading' = [uploading EXCEPT ![r] =
                     Returned(@, "failed to create upload record")]
              /\ UNCHANGED <<uploads, imports, runs>>
              /\ storedFiles' = storedFiles \ {r}
         ELSE IF env = "remove failed"
         THEN /\ uploading' = [uploading EXCEPT ![r] =
                     [Returned(@, "failed to create upload record")
                         EXCEPT !.leftover = TRUE]]
              /\ UNCHANGED <<uploads, imports, runs, storedFiles>>
         ELSE /\ uploads' = Append(uploads,
                     [FileHash |-> uploading[r].hash, Deleted |-> FALSE])
              /\ imports' = imports \cup {Len(uploads) + 1}
              /\ runs' = runs \cup {Len(uploads) + 1}
              /\ uploading' = [uploading EXCEPT ![r].pc = "created"]
              /\ UNCHANGED storedFiles
    /\ UNCHANGED <<tempFiles, requests, response>>
    /\ UNCHANGED nonRaceVars

\* the requests have arrived, each with its content
ConcurrentUploadInit ==
    /\ NoParserRun
    /\ NoRun
    /\ NoUploads
    /\ NoImport
    /\ NoSegment
    /\ NoRetry
    /\ NoArtifacts
    /\ uploading \in [UploadRequests -> {NewRequest(hash) : hash \in Hashes}]

ConcurrentUploadNext ==
    \/ \E r \in UploadRequests :
          \/ RequestCopy(r)
          \/ RequestCheck(r)
          \/ RequestRename(r)
          \/ RequestTransaction(r)
    \/ \E id \in 1..MaxUploads : DeleteUpload(id)

ConcurrentUploadSpec == ConcurrentUploadInit /\ [][ConcurrentUploadNext]_vars

----------------------------------------------------------------------------
(* Reference notions for the parser claims: the tree a mapping encodes *)

\* the nodes reachable from node r along Children (r included)
ReachableFrom(m, r) ==
    LET RECURSIVE Grow(_)
        Grow(S) ==
            LET T == S \cup {c \in DOMAIN m :
                               \E p \in S : \E i \in 1..Len(m[p].Children) :
                                   m[p].Children[i] = c}
            IN IF T = S THEN S ELSE Grow(T)
    IN IF r \in DOMAIN m THEN Grow({r}) ELSE {}

\* the nodes reachable from a child of x
Descendants(m, x) ==
    UNION {ReachableFrom(m, m[x].Children[i]) : i \in 1..Len(m[x].Children)}

\* how often id is listed as a child by the nodes of S
Occurrences(m, S, id) ==
    Cardinality({pi \in S \X (1..MaxChildren) :
                   /\ pi[2] <= Len(m[pi[1]].Children)
                   /\ m[pi[1]].Children[pi[2]] = id})

\* the mapping is a rooted tree: one parentless node, every listed child
\* exists, and every other node is reached from the root along one path
IsTree(m) ==
    /\ Cardinality(Parentless(m)) = 1
    /\ \A r \in Parentless(m) :
         LET R == ReachableFrom(m, r) IN
           /\ \A p \in R : \A i \in 1..Len(m[p].Children) :
                m[p].Children[i] \in DOMAIN m
           /\ Occurrences(m, R, r) = 0
           /\ \A id \in R \ {r} :
                Occurrences(m, R, id) = 1 /\ m[id].Parent = "set"

\* a node reachable from r is its own descendant
HasCycle(m, r) == \E x \in ReachableFrom(m, r) : x \in Descendants(m, x)

Finished(m, S) == {id \in S : m[id].Message = "finished"}

\* pre-order walk from r with an explicit stack and a visited set: the
\* finished nodes in visitation order
PreOrderFinished(m, r) ==
    LET RECURSIVE Walk(_, _, _)
        Walk(stack, visited, out) ==
            IF stack = <<>> THEN out
            ELSE LET n == Head(stack) IN
                 IF n \notin DOMAIN m \/ n \in visited
                 THEN Walk(Tail(stack), visited, out)
                 ELSE Walk(m[n].Children \o Tail(stack), visited \cup {n},
                           IF m[n].Message = "finished"
                           THEN Append(out, n) ELSE out)
    IN Walk(<<r>>, {}, <<>>)

EmittedIds == {messages[i].MessageID : i \in 1..Len(messages)}

TimesEmitted(id) ==
    Cardinality({i \in 1..Len(messages) : messages[i].MessageID = id})

Parsed == pstate \in {"done", "overflow"}

----------------------------------------------------------------------------
(* Claims about the parser *)

\* C1: for a conversation whose mapping is a tree with N finished nodes
\* reachable from the root, the parse emits exactly N Messages, with sequence
\* indices 0..N-1, in pre-order visitation order.
C1_TreeEmitsAllFinishedInPreOrder ==
    (Parsed /\ IsTree(mapping)) =>
        LET expected == PreOrderFinished(mapping, rootID) IN
          /\ pstate = "done"
          /\ Len(messages) = Cardinality(Finished(mapping,
                                 ReachableFrom(mapping, rootID)))
          /\ Len(messages) = Len(expected)
          /\ \A i \in 1..Len(messages) :
               /\ messages[i].MessageIndex = i - 1
               /\ messages[i].MessageID = expected[i]

\* C2: parsing a mapping with a cycle terminates, and every finished node
\* reachable from the root is emitted exactly once.
C2_CycleTerminatesEachFinishedOnce ==
    (Parsed /\ rootID # NoId /\ HasCycle(mapping, rootID)) =>
        /\ pstate = "done"
        /\ \A id \in Finished(mapping, ReachableFrom(mapping, rootID)) :
             TimesEmitted(id) = 1

\* C3: a node without a completed payload (payload absent, or status not
\* finished) emits no Message, and every finished descendant of it is emitted.
C3_UnfinishedNodeChildrenVisited ==
    (pstate = "done" /\ IsTree(mapping)) =>
        \A x \in ReachableFrom(mapping, rootID) :
            mapping[x].Message # "finished" =>
                /\ x \notin EmittedIds
                /\ Finished(mapping, Descendants(mapping, x)) \subseteq EmittedIds

\* C4: parsing is reproducible: two parses of the same mapping yield the same
\* conversation identifier and the same message sequence, and within one parse
\* the identifier is the root the messages are traversed from.
C4_ParseReproducible ==
    pstate = "done" =>
        /\ convId = rootID
        /\ parses = 2 => (prev.convId = convId /\ prev.messages = messages)

----------------------------------------------------------------------------
(* Reference notions for the extraction claims *)

\* the entry name, taken relative to the destination directory even when it
\* begins with a separator, resolves neither to the directory nor below it
ResolvesOutside(name) ==
    LET r == Clean(BaseDir \o <<"/">> \o name)
    IN ~(r = BaseDir \/ HasPrefix(r, BaseDir \o <<"/">>))

InsideBaseDir(p) == HasPrefix(p, BaseDir \o <<"/">>)

\* the entry passes the path-safety check
SafeEntry(i) == sanitizePath(zipFile[i].Name, BaseDir).err = ""

\* the records made for entry i, in memory or stored
RecordsOf(i) ==
    {k \in 1..Len(extractedFiles) : extractedFiles[k].Entry = i}
        \cup {k \in 1..Len(extractions) : extractions[k].Entry = i}

\* the declared sizes of the entries accepted before entry i
RECURSIVE AcceptedBefore(_)
AcceptedBefore(i) ==
    IF i <= 1 THEN 0
    ELSE AcceptedBefore(i - 1)
            + (IF i - 1 <= Len(log) /\ log[i - 1] = "extracted"
               THEN zipFile[i - 1].UncompressedSize64 ELSE 0)

LimitErrors == {"exceeded max extraction size", "exceeded max extracted files"}

----------------------------------------------------------------------------
(* Claims about the extraction and the Run *)

\* C5: an entry whose name resolves outside the destination directory is
\* skipped: no file is extracted for it, no record is made for it, and the
\* extraction is not stopped on its account.
C5_EscapingEntrySkipped ==
    \A i \in 1..Len(log) :
        ResolvesOutside(zipFile[i].Name) =>
            /\ log[i] \notin {"extracted", "limit size"}
            /\ RecordsOf(i) = {}

\* C6: an entry whose name begins with a path separator is rejected by the
\* path-safety check: no file is extracted for it and no record is made.
C6_AbsoluteEntryRejected ==
    \A i \in 1..Len(log) :
        IsAbs(zipFile[i].Name) =>
            /\ log[i] # "extracted"
            /\ \A k \in 1..Len(extractedFiles) : extractedFiles[k].Entry # i

SafeEntries == {i \in 1..Len(zipFile) : SafeEntry(i)}

\* C8: never more than MaxExtractedFiles entries are extracted, and an
\* archive with at most MaxExtractedFiles safe entries is never stopped by
\* the count limit, whatever unsafe entries it holds.
C8_CountLimitCountsAcceptedOnly ==
    /\ fileCount <= MaxExtractedFiles
    /\ Cardinality(SafeEntries) <= MaxExtractedFiles =>
          importRecord.ErrorMessage # "exceeded max extracted files"

\* C9: a Run whose background task has stopped is completed or failed, and
\* a failed Run has a recorded error message.
C9_StoppedRunIsTerminal ==
    pc = "stopped" =>
        /\ importRecord.Status \in {"completed", "failed"}
        /\ importRecord.Status = "failed" => importRecord.ErrorMessage # ""

\* C10: a Run whose archive is a single entry that fails the path check, and
\* whose extraction skipped that entry, ends in failed.
C10_OnlyEntryUnsafeFails ==
    (Len(zipFile) = 1 /\ log = <<"invalid path">> /\ pc = "stopped") =>
        importRecord.Status = "failed"

\* the archive holds an entry that fails the path check and a safe entry that
\* is a conversation export
HasUnsafeEntryAndExport ==
    /\ \E i \in 1..Len(zipFile) : ~SafeEntry(i)
    /\ \E j \in SafeEntries :
         determineFileType(zipFile[j].Name) = "conversation"

\* the declared sizes of the safe entries among the first n
RECURSIVE SafeSize(_)
SafeSize(n) ==
    IF n = 0 THEN 0
    ELSE SafeSize(n - 1)
            + (IF SafeEntry(n) THEN zipFile[n].UncompressedSize64 ELSE 0)

\* the safe entries of the archive are within both limits
WithinLimits ==
    /\ Cardinality(SafeEntries) <= MaxExtractedFiles
    /\ SafeSize(Len(zipFile)) <= MaxExtractionSize

\* the environment failed the Run: the archive could not be opened, the
\* directory or the records could not be written, a file could not be
\* extracted or parsed, the threads of a conversation could not be made
EnvironmentFailed ==
    \/ importRecord.ErrorMessage = "failed to open ZIP file"
    \/ pc = "stopped" /\ importRecord.Status = "extracting"
    \/ \E i \in 1..Len(log) : log[i] = "extract failed"
    \/ \E i \in 1..Len(parseLog) : parseLog[i] = "failed"
    \/ \E i \in 1..Len(threadLog) : threadLog[i] = "failed"

\* C11: a Run whose archive holds an unsafe entry beside safe entries, one of
\* them a conversation export, and whose safe entries are within both limits,
\* eventually reaches completed unless the environment fails it.
C11_UnsafeEntrySkippedRunCompletes ==
    (HasUnsafeEntryAndExport /\ WithinLimits) =>
        <>(importRecord.Status = "completed" \/ EnvironmentFailed)

\* the status changes the Run may make
StatusSteps ==
    {<<"pending", "extracting">>, <<"extracting", "parsing">>,
     <<"parsing", "importing">>, <<"importing", "completed">>}
        \cup {<<st, "failed">> : st \in {"pending", "extracting", "parsing", "importing"}}

C13_ProgressMonotonic ==
    /\ [](importRecord.ProgressPercent \in 0..100)
    /\ [][importRecord'.ProgressPercent >= importRecord.ProgressPercent]_vars

\* C13 witness: the progress was updated for an entry, a file and a
\* conversation and has reached 100
C13_Witness ==
    /\ importRecord.ProgressPercent = 100
    /\ \E i \in 1..Len(log) : log[i] = "extracted"
    /\ \E i \in 1..Len(parseLog) : parseLog[i] = "parsed"
    /\ \E i \in 1..Len(threadLog) : threadLog[i] = "threads"

\* the stage the background task is in: 1 extraction, 2 parsing,
\* 3 segmentation, 4 returned
StageOf(p) ==
    CASE p \in {"extract_begin", "extract_loop"} -> 1
      [] p \in {"parse_begin", "parse_loop"} -> 2
      [] p \in {"threads_begin", "threads_loop"} -> 3
      [] OTHER -> 4

\* ExtractUpload returned nil: every entry was looked at and the records of
\* the extracted files are stored
ExtractionReturnedNil ==
    /\ idx > Len(zipFile)
    /\ extractions = extractedFiles
    /\ importRecord.ErrorMessage = ""

\* ParseUpload returned nil: there were candidate files and the loop went
\* over all of them
ParsingReturnedNil ==
    /\ Len(Candidates) > 0
    /\ parseIdx > Len(Candidates)
    /\ Len(parseLog) = Len(Candidates)

\* C14: the task is in one stage at a time; it leaves a stage only for the
\* next one or to return; parsing runs only after extraction returned
\* without error and segmentation only after parsing did too; once the task
\* has returned no stage runs.
C14_StagesInOrder ==
    /\ [][StageOf(pc') # StageOf(pc) =>
             (pc' = "stopped" \/ StageOf(pc') = StageOf(pc) + 1)]_vars
    /\ [](StageOf(pc) \in {2, 3} => ExtractionReturnedNil)
    /\ [](StageOf(pc) = 3 => ParsingReturnedNil)
    /\ [][pc = "stopped" => pc' = "stopped"]_vars

\* C14 witness: segmentation is running after extraction and parsing
C14_Witness ==
    /\ pc = "threads_loop"
    /\ threadLog # <<>>
    /\ \E i \in 1..Len(log) : log[i] = "extracted"

\* C15: when the status is completed, no conversation of the Run was left
\* without threads by a failed segmentation.
C15_CompletedAfterAllSegmented ==
    importRecord.Status = "completed" =>
        /\ Len(threadLog) = conversations
        /\ \A i \in 1..Len(threadLog) : threadLog[i] = "threads"

\* the archive of the latest request has the content hash of an archive that
\* was ingested before the request
AlreadyIngested == \E u \in 1..Len(uploads) : uploads[u].FileHash = response'.hash

\* the content of the latest request could not be received: the temporary
\* file could not be created or written
NotReceived ==
    response'.err \in {"failed to create temp file", "failed to write file"}

\* C16: an upload that is received and whose content hash is that of an
\* already ingested archive is refused as a duplicate: no Upload or Import
\* row is created, no stored or temporary file remains for it, and no
\* background task is started.
C16_DuplicateUploadRejected ==
    [][(requests' = requests + 1 /\ AlreadyIngested /\ ~NotReceived) =>
          /\ response'.code = "DUPLICATE_UPLOAD"
          /\ UNCHANGED <<uploads, imports, storedFiles, tempFiles, runs>>]_vars

----------------------------------------------------------------------------
(* Claims on ParseUpload and the stored rows *)

\* the conversation processed by the step from this state to the next, as
\* the step logged it
Processed == importLog'[Len(importLog')]

\* the step processes a conversation
ProcessesConversation == Len(importLog') = Len(importLog) + 1

\* the Run holds a Conversation row with identifier cid
StoredWithIdentifier(cid) ==
    \E k \in 1..Len(convStore) : convStore[k].ConversationID = cid

MalformedDone == {i \in 1..Len(fileLog) : ~files[i].Valid}

\* C20: a malformed candidate file is logged as failed and has no Conversation
\* row (hence no Message row); the Run is not failed by it and does not stop;
\* every other file ParseUpload is past was parsed; and a Run with such a
\* file reaches the importing stage.
C20_MalformedFileSkipped ==
    /\ [](\A i \in MalformedDone :
            /\ fileLog[i] = "failed"
            /\ \A k \in 1..Len(convStore) : convStore[k].SourceFile # i
            /\ \A e \in 1..Len(importLog) : importLog[e].file # i
            /\ importRecord.Status \in {"parsing", "importing"}
            /\ pc # "stopped"
            /\ \A j \in 1..Len(fileLog) : files[j].Valid => fileLog[j] = "parsed")
    /\ ((\E i \in 1..Len(files) : ~files[i].Valid)
            ~> (/\ importRecord.Status = "importing"
                /\ Len(fileLog) = Len(files)))

\* ParseUpload returned after a malformed file and a file that was parsed
\* after it and stored a conversation
C20_Witness ==
    /\ pc = "threads_begin"
    /\ importRecord.Status = "importing"
    /\ \E i \in MalformedDone : \E k \in 1..Len(convStore) : convStore[k].SourceFile > i

----------------------------------------------------------------------------
(* Claims on the batch writes *)

\* the committed batches one after the other
RECURSIVE Flatten(_)
Flatten(bs) == IF bs = <<>> THEN <<>> ELSE Head(bs) \o Flatten(Tail(bs))

\* n \div d rounded up
CeilDiv(n, d) == (n + d - 1) \div d

\* C18: once the batch loop has ended, the N messages are in ceil(N/1000)
\* batches, each of exactly 1000 messages except the last, which holds the
\* rest, and the batches one after the other are the N messages in
\* sequence-index order, each message once; while the loop runs, the
\* committed batches are the first messages in that order.
C18_BatchesOfThousand ==
    LET N == Len(batchMessages)
    IN /\ \A b \in 1..(Len(batches) - 1) : Len(batches[b]) = 1000
       /\ batchState # "idle" =>
             Flatten(batches) = SubSeq(batchMessages, 1, Len(Flatten(batches)))
       /\ batchState = "done" =>
             /\ Len(batches) = CeilDiv(N, 1000)
             /\ Flatten(batches) = batchMessages
             /\ \A k \in 1..N : batchMessages[k] = k - 1
             /\ N > 0 => Len(batches[Len(batches)]) = N - (1000 * (Len(batches) - 1))

\* 2,500 messages were written as batches of 1000, 1000 and 500
C18_Witness ==
    /\ batchState = "done"
    /\ Len(batchMessages) = 2500
    /\ Len(batches) = 3
    /\ Len(batches[1]) = 1000
    /\ Len(batches[2]) = 1000
    /\ Len(batches[3]) = 500

\* C19: a batch write that fails leaves the batches committed before it as
\* they were, and after it no batch of the conversation is written.
C19_FailedBatchKeepsEarlier ==
    [][/\ (batchState = "failed" \/ batchState' = "failed") => batches' = batches
       /\ Len(batches') >= Len(batches)
       /\ \A b \in 1..Len(batches) : batches'[b] = batches[b]]_vars

\* the third batch write failed after two batches had been committed
C19_Witness ==
    /\ batchState = "failed"
    /\ Len(batches) = 2
    /\ batchAt < Len(batchMessages)

----------------------------------------------------------------------------
(* Claims on the segmentation *)

\* the stored Threads of conversation c
ThreadsOf(c) == {t \in 1..Len(threads) : threads[t].ConversationID = c}

\* a segmentation of conversation c that found no Thread of it returned nil
SegmentedFromNothing(c) == segLog[c].fromNothing

\* the number of messages of conversation c on date d
MessagesOn(c, d) ==
    Cardinality({k \in 1..Len(segMessages) :
                    segMessages[k].ConversationID = c /\ segMessages[k].Date = d})

\* C21: after a segmentation of a conversation without Threads has returned
\* without error, the conversation has exactly one Thread for every UTC date
\* among its messages and none for another date, and the message count of
\* each Thread is the number of the conversation's messages on its date.
C21_OneThreadPerDate ==
    \A c \in SegConversations :
        SegmentedFromNothing(c) =>
            /\ Cardinality(ThreadsOf(c)) = Cardinality(DatesOf(c))
            /\ {<<threads[t].Date, threads[t].MessageCount>> : t \in ThreadsOf(c)}
                  = {<<d, MessagesOn(c, d)>> : d \in DatesOf(c)}

\* both conversations were segmented; one has a Thread of two messages
C21_Witness ==
    /\ segState = "idle"
    /\ \A c \in SegConversations : SegmentedFromNothing(c)
    /\ \E t \in 1..Len(threads) : threads[t].MessageCount = 2
    /\ \E t, u \in 1..Len(threads) :
          threads[t].ConversationID # threads[u].ConversationID

\* the pairs of conversation and date of the Threads at positions T of ts
ThreadKeys(ts, T) == {<<ts[t].ConversationID, ts[t].Date>> : t \in T}

C23_ThreadWellFormed ==
    \A t \in 1..Len(threads) :
        /\ ~Before(threads[t].EndTimestamp, threads[t].StartTimestamp)
        /\ threads[t].StartMessageID \in 1..Len(segMessages)
        /\ threads[t].EndMessageID \in 1..Len(segMessages)
        /\ segMessages[threads[t].StartMessageID].ConversationID
              = threads[t].ConversationID
        /\ segMessages[threads[t].EndMessageID].ConversationID
              = threads[t].ConversationID

\* a Thread over messages of different times, beside a message of the other
\* conversation on the same date
C23_Witness ==
    \E t \in 1..Len(threads) :
        /\ Before(threads[t].StartTimestamp, threads[t].EndTimestamp)
        /\ \E k \in 1..Len(segMessages) :
              /\ segMessages[k].ConversationID # threads[t].ConversationID
              /\ segMessages[k].Date = threads[t].Date

\* the messages in the date bucket of Thread t
BucketOfThread(t) ==
    {k \in 1..Len(segMessages) :
        /\ segMessages[k].ConversationID = threads[t].ConversationID
        /\ segMessages[k].Date = threads[t].Date}

\* no two messages in the bucket of Thread t have the same timestamp
DistinctTimestamps(t) ==
    \A j, k \in BucketOfThread(t) : j # k => TimestampOf(j) # TimestampOf(k)

\* C24: the start message of every Thread has the lowest sequence index of
\* its date bucket and the end message the highest, whatever the timestamps
\* of the messages are; stated here for the buckets whose messages have
\* pairwise different timestamps, where the order of the sort is fixed.
C24_StartEndBySequenceIndex ==
    \A t \in 1..Len(threads) :
        DistinctTimestamps(t) =>
            \A k \in BucketOfThread(t) :
                /\ MessageIndexOf(threads[t].StartMessageID) <= MessageIndexOf(k)
                /\ MessageIndexOf(threads[t].EndMessageID) >= MessageIndexOf(k)

\* C25: a batch write that fails with a write-contention error of the
\* database is called again before the failure is final.
C25_ContendedWriteRetried ==
    (batchState = "failed" /\ lastWrite.err = "database is locked")
        => lastWrite.calls > 1

\* C30: when no parse of the conversation is in progress, the stored message
\* count is the number of Message rows persisted for it.
C30_CountMatchesMessages ==
    batchState \in {"done", "failed"} => messageCount = Len(Flatten(batches))

----------------------------------------------------------------------------
(* Claims on RetryWithBackoff *)

\* the calls of fn and the sleeps of the call so far
RetryCalls == SelectSeq(retryLog, LAMBDA e : e.op = "call")
RetrySleeps == SelectSeq(retryLog, LAMBDA e : e.op = "sleep")

\* C27: with maxRetries >= 1, RetryWithBackoff calls fn at least once and at
\* most maxRetries times; it returns the outcome of the last call, which is
\* the first call that succeeded or failed with another error than
\* contention, or the call number maxRetries; every two calls are separated by
\* one sleep, the first of initialDelay and each further one of twice the
\* sleep before.
C27_RetryWithBackoff ==
    (retryState = "returned" /\ maxRetries >= 1) =>
        LET calls == RetryCalls
            sleeps == RetrySleeps
            n == Len(calls)
        IN /\ n >= 1 /\ n <= maxRetries
           /\ retryErr = calls[n].err
           /\ \A k \in 1..(n - 1) : isDatabaseLocked(calls[k].err)
           /\ (calls[n].err # "" /\ isDatabaseLocked(calls[n].err)) => n = maxRetries
           /\ Len(retryLog) = 2 * n - 1
           /\ \A k \in 1..Len(retryLog) :
                 retryLog[k].op = (IF k % 2 = 1 THEN "call" ELSE "sleep")
           /\ Len(sleeps) >= 1 => sleeps[1].d = initialDelay
           /\ \A k \in 2..Len(sleeps) : sleeps[k].d = 2 * sleeps[k - 1].d

\* a call that failed three times with contention, after two sleeps
C27_Witness ==
    /\ retryState = "returned"
    /\ maxRetries = 3
    /\ initialDelay > 0
    /\ Len(RetryCalls) = 3
    /\ isDatabaseLocked(retryErr)

----------------------------------------------------------------------------
(* Claims on the per-date text artifact *)

\* the contents of the entries of a date file
ContentsIn(file) == {file[k].content : k \in {j \in 1..Len(file) : file[j].kind = "entry"}}

\* the file of each user message's date holds the message, for every
\* conversation in cs
HoldsUserMessagesOf(cs) ==
    \A c \in cs : \A d \in ArtDates : \A k \in UserMessagesOn(c, d) :
        <<c, k>> \in ContentsIn(artifacts[d])

C28_ConcurrentRunsBothKept ==
    (artLog = [done |-> {1, 2}, failed |-> FALSE]) => HoldsUserMessagesOf({1, 2})

----------------------------------------------------------------------------
(* Claims on concurrent uploads *)

\* the requests with the content of hash h that created an Upload, for which
\* the handler started the background task
CreatedWith(h) ==
    {r \in UploadRequests : uploading[r].hash = h /\ uploading[r].pc = "created"}

\* the Upload rows with hash h
UploadsWith(h) == {u \in 1..Len(uploads) : uploads[u].FileHash = h}

====
